---- MODULE Spec2Model ----
(***************************************************************************)
(* A model of the rapidus bytecode interpreter (src/src/vm.rs): the value  *)
(* model, the shared property maps, the activation records and the         *)
(* fetch-decode-execute loop with its recursive invocations.               *)
(*                                                                         *)
(* The bytecode is an input of the machine: every step fetches an          *)
(* arbitrary instruction (opcode and operand bytes) among those the        *)
(* specification at hand enables.  The emitter's operand-stack discipline  *)
(* (spec section 4.4, "Failure semantics") is kept in the field `own' of   *)
(* the running invocation: an instruction that consumes k operands is only *)
(* fetched when the invocation has statically pushed k operands.           *)
(***************************************************************************)
EXTENDS Integers, Sequences, FiniteSets, TLC

VARIABLES
    stack,      \* VMState.stack : Vec<Value>
    scope,      \* VMState.scope : Vec<CallObjectRef>, as indices into recs
    history,    \* VMState.history : Vec<(bp, lp, sp, return_pc)>
    pc,         \* VMState.pc
    bp,         \* VMState.bp
    lp,         \* VMState.lp
    heap,       \* every Rc<RefCell<HashMap<String, Value>>> ever allocated
    recs,       \* every Rc<RefCell<CallObject>> ever allocated
    arrs,       \* every Rc<RefCell<ArrayValue>> ever allocated
    frames,     \* the host call stack: one entry per active do_run
    fatal,      \* the process has panicked
    atEnd,      \* the byte at pc is known to be END (END does not move pc)
    steps,      \* number of instructions executed so far
    budget,     \* number of instructions the run may execute
    loop_bgn_end, \* VM.loop_bgn_end : HashMap<isize, isize>
    last,       \* what the last executed instruction did (history variable)
    fv_finder   \* the FreeVariableFinder, the AST it annotates and its agenda

vars == <<stack, scope, history, pc, bp, lp, heap, recs, arrs, frames,
          fatal, atEnd, steps, budget, loop_bgn_end, last, fv_finder>>

(***************************************************************************)
(* Bounds of the model.                                                    *)
(***************************************************************************)
MaxSteps == 9       \* instructions executed in one run
MaxMemberSteps == 6 \* the same, for the runs over objects and arrays
MaxArraySteps == 9  \* the same, for the runs over arrays
MaxProtoSteps == 11 \* the same, for the runs over prototype chains
MaxJumpSteps == 3   \* the same, for the runs over immediates and jumps
MaxArithSteps == 5  \* the same, for the runs over binary operators
MaxStack == 3       \* operand-stack depth an instruction may push onto
MaxDepth == 3       \* nested do_run activations, the top level included
MaxArgc  == 1       \* largest argc operand fetched

(***************************************************************************)
(* Values (enum Value).                                                    *)
(***************************************************************************)
Undefined == [t |-> "undef"]
Bool(b) == [t |-> "bool", b |-> b]
Number(n) == [t |-> "num", n |-> n]
String(s) == [t |-> "str", s |-> s]
Function(pos, obj, callobj) ==
    [t |-> "func", pos |-> pos, obj |-> obj, callobj |-> callobj]
NeedThis(v) == [t |-> "needthis", v |-> v]
WithThis(v, this) == [t |-> "withthis", v |-> v, this |-> this]
BuiltinFunction(k) == [t |-> "builtin", k |-> k]
Object(m) == [t |-> "obj", m |-> m]
Array(a) == [t |-> "arr", a |-> a]
Arguments == [t |-> "arguments"]

\* CallObject; `vals', `this' and `parent' are shared pointers (0 is None).
CallObject(vals, params, this, parent) ==
    [vals |-> vals, param_names |-> params, this |-> this, parent |-> parent]

\* The outcome of a call that panics.
Panic == [t |-> "panic"]

(***************************************************************************)
(* HashMap<String, Value>.                                                 *)
(***************************************************************************)
EmptyMap == [k \in {} |-> Undefined]
MapPut(m, k, v) == [x \in (DOMAIN m) \cup {k} |-> IF x = k THEN v ELSE m[x]]
MapHas(m, k) == k \in DOMAIN m

\* Vec helpers.
Last(s) == s[Len(s)]
Front(s) == SubSeq(s, 1, Len(s) - 1)
RECURSIVE Reverse(_)
Reverse(s) == IF s = <<>> THEN <<>> ELSE Append(Reverse(Tail(s)), Head(s))

(***************************************************************************)
(* Operand decoding.                                                       *)
(***************************************************************************)
\* get_int32! with $ty = usize: four little-endian bytes.
GetInt32(b) == b[4] * 16777216 + b[3] * 65536 + b[2] * 256 + b[1]

\* The encoding of n the emitter writes (little-endian, two's complement).
Enc32(n) ==
    LET m == IF n < 0 THEN (n + 2147483647) + 1 ELSE n
    IN  <<m % 256, (m \div 256) % 256, (m \div 65536) % 256,
          (m \div 16777216) + (IF n < 0 THEN 128 ELSE 0)>>

(***************************************************************************)
(* builtin::* indices of VM.builtin_functions.                             *)
(***************************************************************************)
CONSOLE_LOG == 0
PROCESS_STDOUT_WRITE == 1
ARRAY_PUSH == 2
MATH_FLOOR == 3
MATH_RANDOM == 4
MATH_POW == 5
FUNCTION_PROTOTYPE_CALL == 6

(***************************************************************************)
(* The program: the constant table and the entry offsets of its functions. *)
(* F is `function F(a) { ... }' at offset EntryF; its property object, its *)
(* `prototype' and its `__proto__' are built by new_value_function.        *)
(***************************************************************************)
EntryF == 100

\* Indices in `heap' of the maps allocated before the first instruction.
GlobalVals == 1
ConsoleObj == 2
StdoutObj == 3
ProcessObj == 4
MathObj == 5
FVals == 6          \* CallObject::new(..).vals of F's template
FObj == 7           \* F's own property object
FPrototype == 8     \* F.prototype
FProto == 9         \* F.__proto__

\* The CallObject the emitter hands to new_value_function for F.
FTemplate == CallObject(FVals, <<"a">>, 0, 0)

\* new_value_function(EntryF, FTemplate)
new_value_function == Function(EntryF, FObj, FTemplate)

\* ConstantTable.value
ConstValue ==
    <<new_value_function, String("k"), String("length"),
      String("__proto__"), String("push"), String("log")>>

\* ConstantTable.string
ConstString == <<"x", "a", "console">>

\* The heap after VM::new(CallObject::new_global()) and the emitter's
\* new_value_function.
InitHeap ==
    <<  \* GlobalVals
        [k \in {"console", "process", "Math"} |->
            CASE k = "console" -> Object(ConsoleObj)
              [] k = "process" -> Object(ProcessObj)
              [] k = "Math" -> Object(MathObj)],
        \* ConsoleObj
        [k \in {"log"} |-> BuiltinFunction(CONSOLE_LOG)],
        \* StdoutObj
        [k \in {"write"} |-> BuiltinFunction(PROCESS_STDOUT_WRITE)],
        \* ProcessObj
        [k \in {"stdout"} |-> Object(StdoutObj)],
        \* MathObj
        [k \in {"floor", "random", "pow"} |->
            CASE k = "floor" -> BuiltinFunction(MATH_FLOOR)
              [] k = "random" -> BuiltinFunction(MATH_RANDOM)
              [] k = "pow" -> BuiltinFunction(MATH_POW)],
        \* FVals
        EmptyMap,
        \* FObj
        [k \in {"prototype", "__proto__"} |->
            IF k = "prototype" THEN Object(FPrototype) ELSE Object(FProto)],
        \* FPrototype
        [k \in {"constructor"} |-> new_value_function],
        \* FProto
        [k \in {"call"} |-> NeedThis(BuiltinFunction(FUNCTION_PROTOTYPE_CALL))]
    >>

\* CallObject::new_global(): the global record, whose `this' is its own vals.
new_global == CallObject(GlobalVals, <<>>, GlobalVals, 0)
GlobalRec == 1

\* One entry of the host call stack.  kind is "top" for VM::run, "call" or
\* "construct" for the do_run started by that opcode.  own is the number of
\* operands the invocation has pushed and not consumed, as the emitter
\* counts them.  The other fields remember the instruction that started the
\* invocation: the callee, the stack below the callee and its arguments, the
\* arguments, the address after the operand, the callee's property map, the
\* size of the heap and the scope and history stacks at that instruction.
Frame(kind, rec, new_this, callee, below, args, ret) ==
    [kind |-> kind, rec |-> rec, new_this |-> new_this, own |-> 0,
     callee |-> callee, below |-> below, args |-> args, ret |-> ret,
     fobj |-> IF callee.t = "func" THEN heap[callee.obj] ELSE EmptyMap,
     nheap |-> Len(heap), scope |-> scope, history |-> history]

TopFrame == Frame("top", GlobalRec, 0, Undefined, <<>>, <<>>, 0)

\* VM::new followed by VM::run(insts), before the first fetch, for a run
\* of at most n instructions.  The analysis is over by then: no finder.
InitRun(n) ==
    /\ stack = <<>>
    /\ scope = <<GlobalRec>>
    /\ history = << <<0, 0, 0, 0>> >>
    /\ pc = 0
    /\ bp = 0
    /\ lp = 0
    /\ heap = InitHeap
    /\ recs = <<new_global>>
    /\ arrs = <<>>
    /\ frames = <<TopFrame>>
    /\ fatal = FALSE
    /\ atEnd = FALSE
    /\ steps = 0
    /\ budget = n
    /\ loop_bgn_end = EmptyMap
    /\ last = [op |-> "none"]
    /\ fv_finder = <<>>

Init == InitRun(MaxSteps)

(***************************************************************************)
(* The fetch of do_run.                                                    *)
(***************************************************************************)
\* do_run is about to fetch an instruction that consumes k operands.
Fetch(k) ==
    /\ ~fatal
    /\ pc >= 0
    /\ frames # <<>>
    /\ ~atEnd
    /\ steps < budget
    /\ Last(frames).own >= k

\* The running invocation's operand count changes by d.
Own(d) == [frames EXCEPT ![Len(frames)].own = @ + d]

\* A panic (unwrap on None, index out of bounds, panic!, unreachable!):
\* the process terminates, no further instruction is executed.
Die(op) ==
    /\ fatal' = TRUE
    /\ steps' = steps + 1
    /\ last' = [op |-> "panic", at |-> op]
    /\ UNCHANGED <<stack, scope, history, pc, bp, lp, heap, recs, arrs, frames,
                   atEnd, budget, loop_bgn_end, fv_finder>>

(***************************************************************************)
(* Stack and constants.                                                    *)
(***************************************************************************)
\* get_int8! with $ty = i32: the u8 is zero-extended.
GetInt8(b) == b

\* fn push_int8
PushInt8(b) ==
    /\ Fetch(0)
    /\ Len(stack) < MaxStack
    /\ stack' = Append(stack, Number(GetInt8(b)))
    /\ pc' = pc + 2
    /\ frames' = Own(1)
    /\ steps' = steps + 1
    /\ last' = [op |-> "push_int8"]
    /\ UNCHANGED <<scope, history, bp, lp, heap, recs, arrs, fatal, atEnd,
                   budget, loop_bgn_end, fv_finder>>

\* fn push_const
PushConst(b) ==
    /\ Fetch(0)
    /\ Len(stack) < MaxStack
    /\ GetInt32(b) < Len(ConstValue)
    /\ stack' = Append(stack, ConstValue[GetInt32(b) + 1])
    /\ pc' = pc + 5
    /\ frames' = Own(1)
    /\ steps' = steps + 1
    /\ last' = [op |-> "push_const"]
    /\ UNCHANGED <<scope, history, bp, lp, heap, recs, arrs, fatal, atEnd,
                   budget, loop_bgn_end, fv_finder>>

\* fn double
Double ==
    /\ Fetch(1)
    /\ Len(stack) < MaxStack
    /\ IF stack = <<>>
       THEN Die("double")
       ELSE /\ stack' = Append(stack, Last(stack))
            /\ pc' = pc + 1
            /\ frames' = Own(1)
            /\ steps' = steps + 1
            /\ last' = [op |-> "double",
                        before |-> [stack |-> stack, scope |-> scope,
                                    history |-> history, pc |-> pc,
                                    bp |-> bp, lp |-> lp, heap |-> heap,
                                    recs |-> recs, arrs |-> arrs]]
            /\ UNCHANGED <<scope, history, bp, lp, heap, recs, arrs, fatal,
                           atEnd, budget, loop_bgn_end, fv_finder>>

\* A pop that advances pc and leaves the stack as it is.
PopNothing ==
    /\ Fetch(1)
    /\ pc' = pc + 1
    /\ frames' = Own(-1)
    /\ steps' = steps + 1
    /\ last' = [op |-> "pop",
                undoes |-> IF last.op = "double" THEN <<last.before>>
                           ELSE <<>>]
    /\ UNCHANGED <<stack, scope, history, bp, lp, heap, recs, arrs, fatal,
                   atEnd, budget, loop_bgn_end, fv_finder>>

\* fn pop: self_.state.stack.pop() without unwrap, so an empty stack is
\* left empty.
Pop ==
    /\ Fetch(1)
    /\ stack' = IF stack = <<>> THEN <<>> ELSE Front(stack)
    /\ pc' = pc + 1
    /\ frames' = Own(-1)
    /\ steps' = steps + 1
    /\ last' = [op |-> "pop",
                undoes |-> IF last.op = "double" THEN <<last.before>>
                           ELSE <<>>]
    /\ UNCHANGED <<scope, history, bp, lp, heap, recs, arrs, fatal, atEnd,
                   budget, loop_bgn_end, fv_finder>>

\* A capture of the global record whatever record is running.
CapturedRecordGlobal == scope[1]

\* The record set_cur_callobj attaches as parent:
\* self_.state.scope.last().unwrap().clone()
CapturedRecord == Last(scope)

\* fn set_cur_callobj
SetCurCallobj ==
    /\ Fetch(1)
    /\ stack' = IF stack # <<>> /\ Last(stack).t = "func"
                THEN [stack EXCEPT ![Len(stack)].callobj.parent =
                                       CapturedRecord]
                ELSE stack
    /\ pc' = pc + 1
    /\ steps' = steps + 1
    /\ last' = [op |-> "set_cur_callobj", top |-> Last(scope)]
    /\ UNCHANGED <<scope, history, bp, lp, heap, recs, arrs, frames, fatal,
                   atEnd, budget, loop_bgn_end, fv_finder>>

(***************************************************************************)
(* Calls.                                                                  *)
(***************************************************************************)
\* The loop of call/construct over NeedThis and WithThis: the callee left
\* when no wrapper remains.
RECURSIVE UnwrapCallee(_)
UnwrapCallee(v) ==
    IF v.t = "needthis" THEN UnwrapCallee(v.v)
    ELSE IF v.t = "withthis" THEN UnwrapCallee(v.v)
    ELSE v

\* A loop that remembers no receiver.
UnwrapThisNone(v, this) == <<>>

\* The same loop of call: the receiver remembered (a sequence of length 0
\* or 1 for Option<Value>); NeedThis supplies none.
RECURSIVE UnwrapThis(_, _)
UnwrapThis(v, this) ==
    IF v.t = "needthis" THEN UnwrapThis(v.v, this)
    ELSE IF v.t = "withthis" THEN UnwrapThis(v.v, <<v.this>>)
    ELSE this

\* for (i, arg) in args.iter().rev().enumerate() { callobj.set_value(
\* param_names[i], arg) }: args is given in the order it was pushed.
RECURSIVE BindArgs(_, _, _, _)
BindArgs(m, params, args, i) ==
    IF i > Len(args) THEN m
    ELSE BindArgs(MapPut(m, params[i], args[i]), params, args, i + 1)

\* A call that keeps the bindings map of the function value.
CallValsTemplate(callobj) == callobj.vals

\* The bindings of the record `call' runs the callee in: callobj.vals =
\* Rc::new(RefCell::new(HashMap::new())), the map just allocated.
CallVals(callobj) == Len(heap) + 1

\* The sp `call' saves in the history frame: self_.state.stack.len() once
\* the callee and the arguments are popped.
CallSavedSp(rest) == Len(rest)

\* fn call, arm Value::Function
CallFunction(b) ==
    LET argc == GetInt32(b)
        callee == UnwrapCallee(Last(stack))
        st1 == Front(stack)
        rest == SubSeq(st1, 1, Len(st1) - argc)
        args == SubSeq(st1, Len(st1) - argc + 1, Len(st1))
        callobj == callee.callobj
        heap1 == Append(heap, EmptyMap)
        vals == CallVals(callobj)
        rec == [callobj EXCEPT !.vals = vals]
    IN  /\ Fetch(argc + 1)
        /\ Len(frames) < MaxDepth
        /\ stack # <<>>
        /\ callee.t = "func"
        /\ IF argc > Len(st1) \/ argc > Len(callobj.param_names)
           THEN Die("call")
           ELSE /\ heap' = [heap1 EXCEPT ![vals] =
                               BindArgs(@, callobj.param_names, args, 1)]
                /\ recs' = Append(recs, rec)
                /\ scope' = Append(scope, Len(recs) + 1)
                /\ history' = Append(history,
                                     <<0, 0, CallSavedSp(rest), pc + 5>>)
                /\ stack' = rest
                /\ pc' = callee.pos
                /\ frames' = Append(Own(-(argc + 1)),
                                    Frame("call", Len(recs) + 1, 0, callee,
                                          rest, args, pc + 5))
                /\ steps' = steps + 1
                /\ last' = [op |-> "call", callee |-> callee, args |-> args,
                            rec |-> Len(recs) + 1, caller |-> Last(scope)]
                /\ UNCHANGED <<bp, lp, arrs, fatal, atEnd, budget,
                               loop_bgn_end, fv_finder>>

\* What `call' and `construct' do with a callee that is no function:
\* println!(..); break.  The callee is popped, the arguments stay.
CalleeError(op, b) ==
    /\ stack' = Front(stack)
    /\ pc' = pc + 5
    /\ frames' = Own(-GetInt32(b))
    /\ steps' = steps + 1
    /\ last' = [op |-> op, callee |-> UnwrapCallee(Last(stack)),
                error |-> TRUE]
    /\ UNCHANGED <<scope, history, bp, lp, heap, recs, arrs, fatal, atEnd,
                   budget, loop_bgn_end, fv_finder>>

\* fn call, arm `c =>'
CallError(b) ==
    /\ Fetch(GetInt32(b) + 1)
    /\ stack # <<>>
    /\ UnwrapCallee(Last(stack)).t \notin {"func", "builtin"}
    /\ CalleeError("call", b)

\* The bindings `construct' gives the record of the callee: the callobj
\* matched out of the callee is used as it is.
ConstructVals(callobj) == callobj.vals

\* The map `construct' allocates for the new `this', obj being the callee's
\* property map.
ConstructNewThis(obj) ==
    [k \in {"__proto__"} |->
        IF MapHas(obj, "prototype") THEN obj["prototype"] ELSE Undefined]

\* The sp `construct' saves in the history frame:
\* history.push((0, 0, 0, pc)).
ConstructSavedSp(rest) == 0

\* fn construct, arm Value::Function
ConstructFunction(b) ==
    LET argc == GetInt32(b)
        callee == UnwrapCallee(Last(stack))
        st1 == Front(stack)
        rest == SubSeq(st1, 1, Len(st1) - argc)
        args == SubSeq(st1, Len(st1) - argc + 1, Len(st1))
        callobj == callee.callobj
        new_this == Len(heap) + 1
        heap1 == Append(heap, ConstructNewThis(heap[callee.obj]))
        vals == ConstructVals(callobj)
        rec == [callobj EXCEPT !.vals = vals, !.this = new_this]
    IN  /\ Fetch(argc + 1)
        /\ Len(frames) < MaxDepth
        /\ stack # <<>>
        /\ callee.t = "func"
        /\ IF argc > Len(st1) \/ argc > Len(callobj.param_names)
           THEN Die("construct")
           ELSE /\ heap' = [heap1 EXCEPT ![vals] =
                               BindArgs(@, callobj.param_names, args, 1)]
                /\ recs' = Append(recs, rec)
                /\ scope' = Append(scope, Len(recs) + 1)
                /\ history' = Append(history,
                                     <<0, 0, ConstructSavedSp(rest), pc + 5>>)
                /\ stack' = rest
                /\ pc' = callee.pos
                /\ frames' = Append(Own(-(argc + 1)),
                                    Frame("construct", Len(recs) + 1,
                                          new_this, callee, rest, args,
                                          pc + 5))
                /\ steps' = steps + 1
                /\ last' = [op |-> "construct", callee |-> callee,
                            args |-> args, rec |-> Len(recs) + 1,
                            caller |-> Last(scope), new_this |-> new_this]
                /\ UNCHANGED <<bp, lp, arrs, fatal, atEnd, budget,
                               loop_bgn_end, fv_finder>>

\* fn construct, arm `c =>'
ConstructError(b) ==
    /\ Fetch(GetInt32(b) + 1)
    /\ stack # <<>>
    /\ UnwrapCallee(Last(stack)).t # "func"
    /\ CalleeError("construct", b)

\* A construct that hands back whatever the body returned.
ConstructResultKeepsTop(top, new_this) == top

\* The end of `construct' after do_run: the result left on the stack.
ConstructResult(top, new_this) ==
    IF top.t \in {"obj", "arr", "func", "builtin"} THEN top
    ELSE Object(new_this)

\* The stack return_ leaves: stack.drain(sp..len - 1).
Drain(s, sp) == SubSeq(s, 1, sp) \o <<Last(s)>>

\* A loop end after which the caller leaves the callee's record on the
\* scope stack.
AfterDoRunKeepsScope(f, s) ==
    /\ frames' = IF f.kind = "top" THEN <<>>
                 ELSE [Front(frames) EXCEPT ![Len(frames) - 1].own = @ + 1]
    /\ scope' = scope
    /\ stack' = IF f.kind = "construct"
                THEN [s EXCEPT ![Len(s)] = ConstructResult(@, f.new_this)]
                ELSE s

\* A loop end that also ends the loop of the caller.
AfterDoRunBreaksCaller(f, s) ==
    /\ frames' = IF Len(frames) <= 2 THEN <<>> ELSE Front(Front(frames))
    /\ scope' = IF f.kind = "top" THEN scope ELSE Front(scope)
    /\ stack' = s

\* What the caller of do_run does once the loop has ended, for the
\* invocation f whose loop left the stack s: VM::run returns, `call' pops
\* the scope, `construct' pops the scope and settles the result.
AfterDoRun(f, s) ==
    /\ frames' = IF f.kind = "top" THEN <<>>
                 ELSE [Front(frames) EXCEPT ![Len(frames) - 1].own = @ + 1]
    /\ scope' = IF f.kind = "top" THEN scope ELSE Front(scope)
    /\ stack' = IF f.kind = "construct"
                THEN [s EXCEPT ![Len(s)] = ConstructResult(@, f.new_this)]
                ELSE s

\* A return_ that makes the saved stack height the base pointer.
ReturnSetsBp ==
    LET f == Last(frames)
        h == Last(history)
    IN  /\ Fetch(1)
        /\ IF history = <<>> \/ stack = <<>> \/ h[3] > Len(stack) - 1
           THEN Die("return")
           ELSE /\ history' = Front(history)
                /\ pc' = h[4]
                /\ bp' = h[3]
                /\ AfterDoRun(f, Drain(stack, h[3]))
                /\ steps' = steps + 1
                /\ last' = [op |-> "return", kind |-> f.kind,
                            callee |-> f.callee, below |-> f.below,
                            args |-> f.args, ret |-> f.ret,
                            new_this |-> f.new_this, rec |-> f.rec,
                            fobj |-> f.fobj, nheap |-> f.nheap,
                            top |-> Last(stack), sp |-> h[3],
                            scope |-> scope, history |-> history]
                /\ UNCHANGED <<lp, heap, recs, arrs, fatal, atEnd, budget,
                               loop_bgn_end, fv_finder>>

\* fn return_, and the caller's code after do_run
Return ==
    LET f == Last(frames)
        h == Last(history)
    IN  /\ Fetch(1)
        /\ IF history = <<>> \/ stack = <<>> \/ h[3] > Len(stack) - 1
           THEN Die("return")
           ELSE /\ history' = Front(history)
                /\ pc' = h[4]
                /\ AfterDoRun(f, Drain(stack, h[3]))
                /\ steps' = steps + 1
                /\ last' = [op |-> "return", kind |-> f.kind,
                            callee |-> f.callee, below |-> f.below,
                            args |-> f.args, ret |-> f.ret,
                            new_this |-> f.new_this, rec |-> f.rec,
                            fobj |-> f.fobj, nheap |-> f.nheap,
                            top |-> Last(stack), sp |-> h[3],
                            scope |-> scope, history |-> history]
                /\ UNCHANGED <<bp, lp, heap, recs, arrs, fatal, atEnd, budget,
                               loop_bgn_end, fv_finder>>

\* fn end, and the caller's code after do_run.  END leaves pc where it is,
\* so the caller's loop fetches the same END again.
End ==
    LET f == Last(frames)
    IN  /\ ~fatal
        /\ frames # <<>>
        /\ steps < budget
        /\ IF f.kind = "construct" /\ stack = <<>>
           THEN Die("end")
           ELSE /\ AfterDoRun(f, stack)
                /\ atEnd' = (f.kind # "top")
                /\ steps' = steps + 1
                /\ last' = [op |-> "end", kind |-> f.kind]
                /\ UNCHANGED <<history, pc, bp, lp, heap, recs, arrs, fatal,
                               budget, loop_bgn_end, fv_finder>>

(***************************************************************************)
(* The interpreter restricted to the stack, constant and call opcodes.     *)
(***************************************************************************)
Int8s == {1}
Argcs == 0 .. MaxArgc
\* The indices of the functions in ConstantTable.value.
FunctionConsts == {0}

NextCall ==
    \/ \E n \in Int8s : PushInt8(n)
    \/ \E n \in FunctionConsts : PushConst(Enc32(n))
    \/ Pop
    \/ \E n \in Argcs : CallFunction(Enc32(n))
    \/ \E n \in Argcs : CallError(Enc32(n))
    \/ \E n \in Argcs : ConstructFunction(Enc32(n))
    \/ \E n \in Argcs : ConstructError(Enc32(n))
    \/ Return
    \/ End

SpecCall == Init /\ [][NextCall]_vars

(***************************************************************************)
(* Claims about call, construct and return_.                               *)
(***************************************************************************)
\* The last instruction was the RETURN that completed an invocation started
\* by the opcode `kind'.
Completed(kind) == last.op = "return" /\ last.kind = kind

\* C1: when a `call' of a user Function completes by RETURN, the stack is
\* the stack that was below the callee and its arguments with the callee's
\* top-of-stack appended, and pc is the address after the call's operand.
C1_CallStackEffect ==
    Completed("call") =>
        /\ stack = Append(last.below, last.top)
        /\ pc = last.ret

\* C2: when a `construct' of a user Function completes by RETURN, the values
\* that were below the arguments are still on the stack, unchanged and in
\* order, with exactly one result above them.
C2_ConstructStackEffect ==
    Completed("construct") =>
        /\ Len(stack) = Len(last.below) + 1
        /\ SubSeq(stack, 1, Len(last.below)) = last.below

\* C3: when a `construct' of F completes, the result is the returned value
\* if that is an Object, Array, Function or BuiltinFunction; otherwise it is
\* the object allocated by this construct, whose __proto__ is the value F's
\* `prototype' had when construct started and which is the `this' of the
\* record the constructor ran in.
C3_ConstructResult ==
    Completed("construct") =>
        IF last.top.t \in {"obj", "arr", "func", "builtin"}
        THEN Last(stack) = last.top
        ELSE /\ Last(stack) = Object(last.new_this)
             /\ last.new_this > last.nheap
             /\ heap[last.new_this]["__proto__"] =
                    (IF "prototype" \in DOMAIN last.fobj
                     THEN last.fobj["prototype"] ELSE Undefined)
             /\ recs[last.rec].this = last.new_this

\* A construct has completed whose constructor returned a primitive: the
\* result is the new object.
C3_Witness_NewObject ==
    /\ Completed("construct")
    /\ last.top.t = "num"
    /\ Last(stack).t = "obj"

\* C9: a `call' or `construct' whose callee is not callable is fatal: the
\* program terminates at that instruction.
C9_NonCallableIsFatal ==
    (last.op \in {"call", "construct"} /\ "error" \in DOMAIN last) => fatal

(***************************************************************************)
(* Activation records and the scope chain.                                 *)
(***************************************************************************)
\* CallObject::get_value on the record r: the value, or Panic when the
\* chain ends without a binding.
RECURSIVE get_value(_, _)
get_value(r, name) ==
    IF MapHas(heap[recs[r].vals], name) THEN heap[recs[r].vals][name]
    ELSE IF recs[r].parent # 0 THEN get_value(recs[r].parent, name)
    ELSE Panic

\* CallObject::set_value on the record r: the heap it leaves.
set_value(r, name, val) ==
    [heap EXCEPT ![recs[r].vals] = MapPut(@, name, val)]

\* CallObject::set_value_if_exist on the record r: the heap it leaves, or
\* Panic.  The borrow_mut of self.vals is held across the recursion into
\* the parent, so meeting the same map again is a BorrowMutError.
RECURSIVE set_value_if_exist(_, _, _, _)
set_value_if_exist(r, name, val, borrowed) ==
    LET v == recs[r].vals
    IN  IF v \in borrowed THEN Panic
        ELSE IF MapHas(heap[v], name) THEN [heap EXCEPT ![v][name] = val]
        ELSE IF recs[r].parent # 0
             THEN set_value_if_exist(recs[r].parent, name, val,
                                     borrowed \cup {v})
        ELSE [heap EXCEPT ![v] = MapPut(@, name, val)]

\* fn get_name
GetName(b) ==
    LET name == ConstString[GetInt32(b) + 1]
        val == get_value(Last(scope), name)
    IN  /\ Fetch(0)
        /\ Len(stack) < MaxStack
        /\ GetInt32(b) < Len(ConstString)
        /\ IF val = Panic
           THEN Die("get_name")
           ELSE /\ stack' = Append(stack, val)
                /\ pc' = pc + 5
                /\ frames' = Own(1)
                /\ steps' = steps + 1
                /\ last' = [op |-> "get_name", name |-> name,
                            rec |-> Last(scope)]
                /\ UNCHANGED <<scope, history, bp, lp, heap, recs, arrs, fatal,
                               atEnd, budget, loop_bgn_end, fv_finder>>

\* fn set_name
SetName(b) ==
    LET name == ConstString[GetInt32(b) + 1]
        h == set_value_if_exist(Last(scope), name, Last(stack), {})
    IN  /\ Fetch(1)
        /\ GetInt32(b) < Len(ConstString)
        /\ IF stack = <<>> \/ h = Panic
           THEN Die("set_name")
           ELSE /\ heap' = h
                /\ stack' = Front(stack)
                /\ pc' = pc + 5
                /\ frames' = Own(-1)
                /\ steps' = steps + 1
                /\ last' = [op |-> "set_name", name |-> name,
                            rec |-> Last(scope), val |-> Last(stack)]
                /\ UNCHANGED <<scope, history, bp, lp, recs, arrs, fatal,
                               atEnd, budget, loop_bgn_end, fv_finder>>

\* fn decl_var
DeclVar(b) ==
    LET name == ConstString[GetInt32(b) + 1]
    IN  /\ Fetch(1)
        /\ GetInt32(b) < Len(ConstString)
        /\ IF stack = <<>>
           THEN Die("decl_var")
           ELSE /\ heap' = set_value(Last(scope), name, Last(stack))
                /\ stack' = Front(stack)
                /\ pc' = pc + 5
                /\ frames' = Own(-1)
                /\ steps' = steps + 1
                /\ last' = [op |-> "decl_var", name |-> name,
                            rec |-> Last(scope), val |-> Last(stack)]
                /\ UNCHANGED <<scope, history, bp, lp, recs, arrs, fatal,
                               atEnd, budget, loop_bgn_end, fv_finder>>

(***************************************************************************)
(* The interpreter restricted to the opcodes that create, capture and use  *)
(* activation records.                                                     *)
(***************************************************************************)
NameIds == 0 .. 1    \* x and a in ConstString

NextScope ==
    \/ \E n \in Int8s : PushInt8(n)
    \/ \E n \in FunctionConsts : PushConst(Enc32(n))
    \/ SetCurCallobj
    \/ \E n \in Argcs : CallFunction(Enc32(n))
    \/ \E n \in Argcs : ConstructFunction(Enc32(n))
    \/ Return
    \/ \E n \in NameIds : GetName(Enc32(n))
    \/ \E n \in NameIds : SetName(Enc32(n))
    \/ \E n \in NameIds : DeclVar(Enc32(n))

SpecScope == Init /\ [][NextScope]_vars

(***************************************************************************)
(* Claims about activation records.                                        *)
(***************************************************************************)
\* The bindings of the record r.
Bindings(r) == heap[recs[r].vals]

\* The records on the parent chain that starts at r (0 is no record).
RECURSIVE ChainOf(_)
ChainOf(r) == IF r = 0 THEN <<>> ELSE <<r>> \o ChainOf(recs[r].parent)

\* The positions in chain of the records that bind name.
Binders(chain, name) ==
    {i \in 1 .. Len(chain) : MapHas(Bindings(chain[i]), name)}

\* The first record of chain that binds name.
NearestBinder(chain, name) ==
    chain[CHOOSE i \in Binders(chain, name) :
              \A j \in Binders(chain, name) : i <= j]

\* formals[i] -> args[i] for the arguments given.
FormalsMap(params, args) ==
    [k \in {params[i] : i \in 1 .. Len(args)} |->
        args[CHOOSE i \in 1 .. Len(args) : params[i] = k]]

\* The last instruction was a call or construct that started an invocation.
Started(op) == last.op = op /\ "error" \notin DOMAIN last

\* The step is the execution of the instruction op.
Executes(op) == steps' = steps + 1 /\ last'.op = op

C5_ConstructFreshBindings ==
    /\ Started("construct") =>
           Bindings(last.rec) =
               FormalsMap(last.callee.callobj.param_names, last.args)
    /\ \A n \in FunctionConsts :
           heap[ConstValue[n + 1].callobj.vals] = EmptyMap

\* The record captured by the function value the running invocation was
\* started with.
CapturedBy(f) == f.callee.callobj.parent

\* C6: set_cur_callobj captures the record on top of the scope stack; every
\* invocation of the value runs in a record whose parent is the captured
\* record; a get_name or set_name of a name the callee's record does not
\* bind resolves along the captured record's chain.
C6_ClosureCapture ==
    /\ []((/\ last.op = "set_cur_callobj"
           /\ stack # <<>>
           /\ Last(stack).t = "func") =>
            Last(stack).callobj.parent = last.top)
    /\ [](\A i \in 2 .. Len(frames) :
            recs[frames[i].rec].parent = CapturedBy(frames[i]))
    /\ []((/\ last.op = "get_name"
           /\ Len(frames) >= 2
           /\ ~MapHas(Bindings(last.rec), last.name)) =>
            LET chain == ChainOf(CapturedBy(Last(frames)))
            IN  /\ Binders(chain, last.name) # {}
                /\ Last(stack) =
                       Bindings(NearestBinder(chain, last.name))[last.name])
    /\ [][(/\ Executes("set_name")
           /\ Len(frames) >= 2
           /\ ~MapHas(Bindings(Last(scope)), last'.name)
           /\ Binders(ChainOf(CapturedBy(Last(frames))), last'.name) # {}) =>
            LET chain == ChainOf(CapturedBy(Last(frames)))
                target == NearestBinder(chain, last'.name)
            IN  heap'[recs[target].vals][last'.name] = last'.val]_vars

\* A get_name in an invocation of a captured function value resolved a name
\* in the captured record after that record's own invocation had returned,
\* the caller being another record.
C6_Witness_EscapedClosure ==
    /\ last.op = "get_name"
    /\ Len(frames) >= 2
    /\ ~MapHas(Bindings(last.rec), last.name)
    /\ CapturedBy(Last(frames)) # 0
    /\ \A i \in 1 .. Len(scope) : scope[i] # CapturedBy(Last(frames))
    /\ MapHas(Bindings(CapturedBy(Last(frames))), last.name)

\* C7: set_name x updates x in the nearest record of the chain that binds
\* x, or creates it in the global record when none does, and changes the
\* bindings of no other record.
C7_SetNameTarget ==
    [][Executes("set_name") =>
        LET chain == ChainOf(Last(scope))
            target == IF Binders(chain, last'.name) # {}
                      THEN NearestBinder(chain, last'.name)
                      ELSE GlobalRec
        IN  /\ MapHas(heap'[recs[target].vals], last'.name)
            /\ heap'[recs[target].vals][last'.name] = last'.val
            /\ \A r \in 1 .. Len(recs) :
                   recs[r].vals # recs[target].vals
                       => heap'[recs[r].vals] = heap[recs[r].vals]
            /\ \A r \in 1 .. Len(recs) :
                   r # target => recs[r].vals # recs[target].vals]_vars

\* C8: decl_var x binds x in the record on top of the scope stack only;
\* get_name x returns the value of the nearest binding of the chain; a
\* get_name of a name no record of the chain binds is fatal and pushes
\* nothing.
C8_DeclareAndLookup ==
    /\ [][Executes("decl_var") =>
            /\ heap'[recs[Last(scope)].vals][last'.name] = last'.val
            /\ \A r \in 1 .. Len(recs) :
                   r # Last(scope) =>
                       /\ recs[r].vals # recs[Last(scope)].vals
                       /\ heap'[recs[r].vals] = heap[recs[r].vals]]_vars
    /\ [][Executes("get_name") =>
            /\ Binders(ChainOf(Last(scope)), last'.name) # {}
            /\ Last(stack') =
                   Bindings(NearestBinder(ChainOf(Last(scope)),
                                          last'.name))[last'.name]]_vars
    /\ [][(Executes("panic") /\ last'.at = "get_name") =>
            fatal' /\ stack' = stack]_vars

(***************************************************************************)
(* Objects, arrays and members.                                            *)
(***************************************************************************)
\* ArrayValue: elems, the declared length and the property map obj.
ArrayValue(elems, length, obj) ==
    [elems |-> elems, length |-> length, obj |-> obj]

\* format!("{}", n) of a Number with an integer value.
Digits == <<"0", "1", "2", "3", "4", "5", "6", "7", "8", "9">>
RECURSIVE FormatNumber(_)
FormatNumber(n) ==
    IF n < 0 THEN "-" \o FormatNumber(-n)
    ELSE IF n < 10 THEN Digits[n + 1]
    ELSE FormatNumber(n \div 10) \o Digits[(n % 10) + 1]

\* Value::to_string is unimplemented! for a value that is neither a String
\* nor a Number.
CanToString(v) == v.t \in {"str", "num"}

\* Value::to_string: the key a member value names.
to_string(v) == IF v.t = "str" THEN v.s ELSE FormatNumber(v.n)

\* What a step that went well yields.
Ok(x) == [t |-> "ok", x |-> x]

\* `n as usize' of a Number with an integer value: the cast saturates.
AsUsize(n) == IF n < 0 THEN 0 ELSE n

\* The characters of the strings of the constant table.
CharsOf(s) ==
    CASE s = "k" -> <<"k">>
      [] s = "length" -> <<"l", "e", "n", "g", "t", "h">>
      [] s = "__proto__" -> <<"_", "_", "p", "r", "o", "t", "o", "_", "_">>
      [] OTHER -> <<>>

\* A lookup that stops at the object's own properties.
obj_find_val_own(obj, key, seen) ==
    IF MapHas(obj, key) THEN obj[key] ELSE Undefined

\* The outcome of a recursion that never ends: the host stack overflows.
Overflow == [t |-> "overflow"]

\* fn obj_find_val on the map obj; seen holds the maps the recursion has
\* entered, and entering one of them again means it never ends.
RECURSIVE obj_find_val(_, _, _)
obj_find_val(obj, key, seen) ==
    IF MapHas(obj, key) THEN obj[key]
    ELSE IF MapHas(obj, "__proto__") /\ obj["__proto__"].t = "obj"
         THEN LET p == obj["__proto__"].m
              IN  IF p \in seen THEN Overflow
                  ELSE obj_find_val(heap[p], key, seen \cup {p})
    ELSE Undefined

\* A lookup that hands the function back as it is stored.
BindMethodUnbound(found, m) == found

\* The arms Value::Object and Value::Function of get_member: the value
\* found in the map m, a user function with `this' set to m.
BindMethod(found, m) ==
    IF found.t = "func" THEN [found EXCEPT !.callobj.this = m] ELSE found

\* What get_member pushes for parent and member: Ok of a sequence of
\* values, or Panic, or Overflow.
GetMemberResult(parent, member) ==
    CASE parent.t = "str" ->
            IF member.t = "num"
            THEN IF AsUsize(member.n) < Len(CharsOf(parent.s))
                 THEN Ok(<<String(CharsOf(parent.s)[AsUsize(member.n) + 1])>>)
                 ELSE Panic
            ELSE IF member = String("length")
                 THEN Ok(<<Number(Len(CharsOf(parent.s)))>>)
            ELSE Ok(<<Undefined>>)
      [] parent.t = "obj" ->
            IF ~CanToString(member) THEN Panic
            ELSE LET found == obj_find_val(heap[parent.m],
                                           to_string(member), {})
                 IN  IF found = Overflow THEN Overflow
                     ELSE Ok(<<BindMethod(found, parent.m)>>)
      [] parent.t = "func" \/ (parent.t = "needthis" /\ parent.v.t = "func") ->
            LET f == IF parent.t = "func" THEN parent ELSE parent.v
            IN  IF ~CanToString(member) THEN Panic
                ELSE LET found == obj_find_val(heap[f.obj],
                                               to_string(member), {})
                     IN  IF found = Overflow THEN Overflow
                         ELSE Ok(<<BindMethod(found, f.obj)>>)
      [] parent.t = "arr" ->
            LET a == arrs[parent.a]
            IN  IF member.t = "num"
                THEN IF AsUsize(member.n) >= a.length THEN Ok(<<Undefined>>)
                     ELSE IF AsUsize(member.n) >= Len(a.elems) THEN Panic
                     ELSE Ok(<<a.elems[AsUsize(member.n) + 1]>>)
                ELSE IF member = String("length")
                     THEN Ok(<<Number(a.length)>>)
                ELSE IF ~CanToString(member) THEN Panic
                ELSE LET found == obj_find_val(a.obj, to_string(member), {})
                     IN  IF found = Overflow THEN Overflow
                         ELSE IF found.t = "needthis"
                              THEN Ok(<<WithThis(found.v, parent)>>)
                         ELSE Ok(<<found>>)
      [] parent.t = "arguments" ->
            IF member.t = "num"
            THEN IF bp + AsUsize(member.n) < lp
                 THEN Ok(<<stack[bp + AsUsize(member.n) + 1]>>)
                 ELSE Ok(<<>>)
            ELSE IF member = String("length") THEN Ok(<<Number(lp - bp)>>)
            ELSE Ok(<<Undefined>>)
      [] OTHER -> Panic

\* fn get_member
GetMember ==
    LET member == Last(stack)
        parent == Last(Front(stack))
        res == GetMemberResult(parent, member)
    IN  /\ Fetch(2)
        /\ IF Len(stack) < 2 \/ res.t # "ok"
           THEN Die("get_member")
           ELSE /\ stack' = Front(Front(stack)) \o res.x
                /\ pc' = pc + 1
                /\ frames' = Own(-1)
                /\ steps' = steps + 1
                /\ last' = [op |-> "get_member", parent |-> parent,
                            member |-> member, res |-> res.x]
                /\ UNCHANGED <<scope, history, bp, lp, heap, recs, arrs, fatal,
                               atEnd, budget, loop_bgn_end, fv_finder>>

\* A write that never reaches the map.
SetPropertyLost(m, key, val) == heap

\* The arm Value::Object | Value::Function | NeedThis(Function) of
\* set_member: the heap after the write of val under key in the map m.
SetProperty(m, key, val) == [heap EXCEPT ![m] = MapPut(@, key, val)]

\* The arm Value::Array of set_member on the array a: Ok of the array it
\* leaves, or Panic.  An index at or past the length sets length and the Vec's len
\* to the index and then indexes the Vec with it, which is out of bounds.
SetArrayMember(a, member, val) ==
    IF member.t = "num"
    THEN IF AsUsize(member.n) >= a.length THEN Panic
         ELSE IF AsUsize(member.n) >= Len(a.elems) THEN Panic
         ELSE Ok([a EXCEPT !.elems[AsUsize(member.n) + 1] = val])
    ELSE IF member = String("length")
         THEN IF val.t = "num" THEN Ok([a EXCEPT !.length = AsUsize(val.n)])
              ELSE Ok(a)
    ELSE IF ~CanToString(member) THEN Panic
    ELSE Ok([a EXCEPT !.obj = MapPut(@, to_string(member), val)])

\* fn set_member
SetMember ==
    LET member == stack[Len(stack)]
        parent == stack[Len(stack) - 1]
        val == stack[Len(stack) - 2]
        rest == SubSeq(stack, 1, Len(stack) - 3)
        isMap == parent.t \in {"obj", "func"}
                     \/ (parent.t = "needthis" /\ parent.v.t = "func")
        m == IF parent.t = "obj" THEN parent.m
             ELSE IF parent.t = "func" THEN parent.obj
             ELSE parent.v.obj
        idx == bp + AsUsize(member.n)
        panics ==
            \/ Len(stack) < 3
            \/ isMap /\ ~CanToString(member)
            \/ parent.t = "arr"
                   /\ SetArrayMember(arrs[parent.a], member, val).t # "ok"
            \/ ~isMap /\ parent.t \notin {"arr", "arguments"}
    IN  /\ Fetch(3)
        /\ IF panics
           THEN Die("set_member")
           ELSE /\ heap' = IF isMap
                           THEN SetProperty(m, to_string(member), val)
                           ELSE heap
                /\ arrs' = IF parent.t = "arr"
                           THEN [arrs EXCEPT ![parent.a] =
                                    SetArrayMember(@, member, val).x]
                           ELSE arrs
                /\ stack' = IF parent.t = "arguments" /\ member.t = "num"
                                   /\ idx < lp
                            THEN [rest EXCEPT ![idx + 1] = val]
                            ELSE rest
                /\ pc' = pc + 1
                /\ frames' = Own(-3)
                /\ steps' = steps + 1
                /\ last' = [op |-> "set_member", parent |-> parent,
                            member |-> member, val |-> val]
                /\ UNCHANGED <<scope, history, bp, lp, recs, fatal, atEnd,
                               budget, loop_bgn_end, fv_finder>>

\* The pairs create_object pops, for each the name then the value: Ok of
\* the map, or Panic when a name is no String.
RECURSIVE ObjectOf(_, _)
ObjectOf(s, k) ==
    IF k = 0 THEN Ok(EmptyMap)
    ELSE LET name == s[Len(s)]
             val == s[Len(s) - 1]
             tail == ObjectOf(SubSeq(s, 1, Len(s) - 2), k - 1)
         IN  IF name.t # "str" \/ tail.t # "ok" THEN Panic
             ELSE Ok([x \in {name.s} \cup DOMAIN tail.x |->
                         IF x \in DOMAIN tail.x THEN tail.x[x] ELSE val])

\* fn create_object
CreateObject(b) ==
    LET len == GetInt32(b)
        map == ObjectOf(stack, len)
    IN  /\ Fetch(2 * len)
        /\ Len(stack) - 2 * len < MaxStack
        /\ IF Len(stack) < 2 * len \/ map.t # "ok"
           THEN Die("create_object")
           ELSE /\ heap' = Append(heap, map.x)
                /\ stack' = Append(SubSeq(stack, 1, Len(stack) - 2 * len),
                                   Object(Len(heap) + 1))
                /\ pc' = pc + 5
                /\ frames' = Own(1 - 2 * len)
                /\ steps' = steps + 1
                /\ last' = [op |-> "create_object"]
                /\ UNCHANGED <<scope, history, bp, lp, recs, arrs, fatal,
                               atEnd, budget, loop_bgn_end, fv_finder>>

\* ArrayValue::new(arr): the array, whose __proto__ is the new map p.
ArrayValue_new(arr, p) ==
    ArrayValue(arr, Len(arr), [k \in {"__proto__"} |-> Object(p)])

\* The array prototype ArrayValue::new allocates.
ArrayPrototype ==
    [k \in {"push"} |-> NeedThis(BuiltinFunction(ARRAY_PUSH))]

\* fn create_array
CreateArray(b) ==
    LET len == GetInt32(b)
        arr == Reverse(SubSeq(stack, Len(stack) - len + 1, Len(stack)))
    IN  /\ Fetch(len)
        /\ Len(stack) - len < MaxStack
        /\ IF Len(stack) < len
           THEN Die("create_array")
           ELSE /\ heap' = Append(heap, ArrayPrototype)
                /\ arrs' = Append(arrs, ArrayValue_new(arr, Len(heap) + 1))
                /\ stack' = Append(SubSeq(stack, 1, Len(stack) - len),
                                   Array(Len(arrs) + 1))
                /\ pc' = pc + 5
                /\ frames' = Own(1 - len)
                /\ steps' = steps + 1
                /\ last' = [op |-> "create_array"]
                /\ UNCHANGED <<scope, history, bp, lp, recs, fatal, atEnd,
                               budget, loop_bgn_end, fv_finder>>

(***************************************************************************)
(* The interpreter restricted to the opcodes that create, copy, read and   *)
(* write objects and arrays.                                               *)
(***************************************************************************)
Lens == 0 .. 1
MemberInt8s == {0, 1}
MemberConsts == {0, 1, 2}

NextMember ==
    \/ \E n \in MemberInt8s : PushInt8(n)
    \/ \E n \in MemberConsts : PushConst(Enc32(n))
    \/ Double
    \/ \E n \in Lens : CreateObject(Enc32(n))
    \/ \E n \in Lens : CreateArray(Enc32(n))
    \/ GetMember
    \/ SetMember
    \/ \E n \in NameIds : GetName(Enc32(n))
    \/ \E n \in NameIds : DeclVar(Enc32(n))

InitMember == InitRun(MaxMemberSteps)

SpecMember == InitMember /\ [][NextMember]_vars

(***************************************************************************)
(* Claims about shared objects.                                            *)
(***************************************************************************)
\* The values on the stack, in the bindings of the records and in the
\* constant table.
LiveValues ==
    {stack[i] : i \in 1 .. Len(stack)}
        \cup UNION {{Bindings(r)[k] : k \in DOMAIN Bindings(r)} :
                        r \in 1 .. Len(recs)}
        \cup {ConstValue[i] : i \in 1 .. Len(ConstValue)}

\* The value holds its members in a property map.
IsMapValue(v) ==
    v.t \in {"obj", "func"} \/ (v.t = "needthis" /\ v.v.t = "func")

\* The property map of such a value.
MapOf(v) ==
    IF v.t = "obj" THEN v.m ELSE IF v.t = "func" THEN v.obj ELSE v.v.obj

\* The live values that refer to the heap object or array p refers to.
Aliases(p) ==
    {q \in LiveValues :
        \/ IsMapValue(p) /\ IsMapValue(q) /\ MapOf(q) = MapOf(p)
        \/ p.t = "arr" /\ q.t = "arr" /\ q.a = p.a}

ReadBack(q, member, val) ==
    IF IsMapValue(q)
    THEN IF val.t = "func" THEN [val EXCEPT !.callobj.this = MapOf(q)]
         ELSE val
    ELSE IF member.t = "num" THEN val
    ELSE IF member = String("length")
         THEN IF val.t = "num" /\ val.n >= 0 THEN val
              ELSE Number(arrs[q.a].length)
    ELSE IF val.t = "needthis" THEN WithThis(val.v, q)
    ELSE val

ArrayInt8s == {0, 1}
LengthConst == 2        \* the index of "length" in ConstValue
ArrayName == 0          \* the index of "x" in ConstString

NextArray ==
    \/ \E n \in ArrayInt8s : PushInt8(n)
    \/ PushConst(Enc32(LengthConst))
    \/ \E n \in Lens : CreateArray(Enc32(n))
    \/ GetMember
    \/ SetMember
    \/ GetName(Enc32(ArrayName))
    \/ DeclVar(Enc32(ArrayName))

InitArray == InitRun(MaxArraySteps)

SpecArray == InitArray /\ [][NextArray]_vars

(***************************************************************************)
(* Claims about arrays.                                                    *)
(***************************************************************************)
\* The step is the instruction op, whether it completes or panics.
Attempts(op) ==
    /\ steps' = steps + 1
    /\ last'.op = op \/ (last'.op = "panic" /\ last'.at = op)

\* The indices the claims about arrays read.
MaxIndex == 2

\* C11: get_member on an array a with an integer key i >= 0 is not fatal
\* and pushes a.elems[i] when i < a.length and Undefined otherwise;
\* with the key "length" it pushes a.length.
C11_ArrayReads ==
    [][(/\ Attempts("get_member")
        /\ Len(stack) >= 2
        /\ stack[Len(stack) - 1].t = "arr"
        /\ \/ stack[Len(stack)] = String("length")
           \/ stack[Len(stack)].t = "num" /\ stack[Len(stack)].n >= 0) =>
            LET a == arrs[stack[Len(stack) - 1].a]
                member == stack[Len(stack)]
            IN  /\ ~fatal'
                /\ Len(stack') = Len(stack) - 1
                /\ member = String("length") =>
                       Last(stack') = Number(a.length)
                /\ (member.t = "num" /\ member.n >= a.length) =>
                       Last(stack') = Undefined
                /\ (member.t = "num" /\ member.n < a.length) =>
                       /\ member.n < Len(a.elems)
                       /\ Last(stack') = a.elems[member.n + 1]]_vars

\* C12: set_member on an array with an integer key i at or past the length
\* is not fatal; afterwards index i holds the value, the indices from the
\* old length up to i read Undefined, the length is greater than i and the
\* elements below the old length are unchanged.
C12_ArrayWritePastLength ==
    [][(/\ Attempts("set_member")
        /\ Len(stack) >= 3
        /\ stack[Len(stack) - 1].t = "arr"
        /\ stack[Len(stack)].t = "num"
        /\ stack[Len(stack)].n >= arrs[stack[Len(stack) - 1].a].length) =>
            LET p == stack[Len(stack) - 1]
                i == stack[Len(stack)].n
                old == arrs[p.a]
            IN  /\ ~fatal'
                /\ arrs'[p.a].length > i
                /\ GetMemberResult(last.parent, Number(i))' =
                       Ok(<<stack[Len(stack) - 2]>>)
                /\ \A j \in old.length .. i - 1 :
                       GetMemberResult(last.parent, Number(j))' =
                           Ok(<<Undefined>>)
                /\ \A j \in 0 .. old.length - 1 :
                       GetMemberResult(last.parent, Number(j))' =
                           GetMemberResult(p, Number(j))]_vars

\* C13: after set_member on an array with the key "length" and a Number
\* m >= 0, "length" reads m, every index at or past m reads Undefined, an
\* index below m reads the element stored before when it was below the old
\* length and Undefined otherwise; a value that is no Number leaves the
\* array unchanged.
C13_ArraySetLength ==
    [][(/\ Executes("set_member")
        /\ stack[Len(stack) - 1].t = "arr"
        /\ stack[Len(stack)] = String("length")) =>
            LET p == stack[Len(stack) - 1]
                val == stack[Len(stack) - 2]
                old == arrs[p.a]
            IN  IF val.t # "num" THEN arrs'[p.a] = old
                ELSE val.n >= 0 =>
                    /\ GetMemberResult(last.parent, String("length"))' =
                           Ok(<<val>>)
                    /\ \A i \in 0 .. MaxIndex :
                           GetMemberResult(last.parent, Number(i))' =
                               IF i < val.n /\ i < old.length
                               THEN GetMemberResult(p, Number(i))
                               ELSE Ok(<<Undefined>>)]_vars

(***************************************************************************)
(* The interpreter restricted to the opcodes that build objects, link them *)
(* through __proto__ and read their members.                               *)
(***************************************************************************)
ProtoConsts == {0, 1, 3}    \* F, "k" and "__proto__" in ConstValue

NextProto ==
    \/ \E n \in ProtoConsts : PushConst(Enc32(n))
    \/ Double
    \/ \E n \in Lens : CreateObject(Enc32(n))
    \/ GetMember
    \/ SetMember

InitProto == InitRun(MaxProtoSteps)

SpecProto == InitProto /\ [][NextProto]_vars

(***************************************************************************)
(* Claims about prototype chains.                                          *)
(***************************************************************************)
\* The map m has an Object as __proto__.
HasProto(m) == MapHas(heap[m], "__proto__") /\ heap[m]["__proto__"].t = "obj"

\* The maps m, m.__proto__, m.__proto__.__proto__, ... up to the first map
\* without an Object as __proto__, or up to the map that closes a cycle.
RECURSIVE ProtoChain(_, _)
ProtoChain(m, seen) ==
    IF HasProto(m) /\ heap[m]["__proto__"].m \notin seen \cup {m}
    THEN <<m>> \o ProtoChain(heap[m]["__proto__"].m, seen \cup {m})
    ELSE <<m>>

\* The chain from m is a cycle: its last map has an Object as __proto__.
Cyclic(m) == HasProto(Last(ProtoChain(m, {})))

\* The positions in the chain from m of the maps that own key.
Owners(m, key) ==
    {i \in 1 .. Len(ProtoChain(m, {})) :
        MapHas(heap[ProtoChain(m, {})[i]], key)}

\* The value of key in the first map of the chain from m that owns it.
Inherited(m, key) ==
    heap[ProtoChain(m, {})[CHOOSE i \in Owners(m, key) :
                               \A j \in Owners(m, key) : i <= j]][key]

\* The last instruction was a get_member with a key on the Object parent.
ReadObject ==
    /\ last.op = "get_member"
    /\ last.parent.t = "obj"

\* C14 as stated: get_member on an Object returns the value of the key in
\* the first object of the prototype chain that owns it, and Undefined when
\* the chain ends without an owner.
C14_PrototypeLookup ==
    ReadObject =>
        LET m == last.parent.m
            key == to_string(last.member)
        IN  IF Owners(m, key) # {}
            THEN last.res = <<Inherited(m, key)>>
            ELSE ~Cyclic(m) => last.res = <<Undefined>>

\* The value v as a method of the receiver map m: a user Function has the
\* `this' of its record set to m.
MethodOf(v, m) ==
    IF v.t = "func"
    THEN Function(v.pos, v.obj,
                  CallObject(v.callobj.vals, v.callobj.param_names, m,
                             v.callobj.parent))
    ELSE v

\* C14 as amended: the value returned is that of the first owner on the
\* chain, a user Function being returned bound to the receiver; Undefined
\* when the chain ends without an owner.
C14_PrototypeLookupAmended ==
    ReadObject =>
        LET m == last.parent.m
            key == to_string(last.member)
        IN  IF Owners(m, key) # {}
            THEN last.res = <<MethodOf(Inherited(m, key), m)>>
            ELSE ~Cyclic(m) => last.res = <<Undefined>>

\* A get_member returned a value the receiver does not own, found in its
\* prototype.
C14_Witness_FoundInPrototype ==
    /\ ReadObject
    /\ Owners(last.parent.m, to_string(last.member)) # {}
    /\ 1 \notin Owners(last.parent.m, to_string(last.member))
    /\ last.res # <<Undefined>>

\* C15: get_member on an object whose __proto__ edges form a cycle finishes
\* and pushes a value, for a key no object of the cycle owns as well.
C15_CyclicLookupTerminates ==
    [][(/\ Attempts("get_member")
        /\ Len(stack) >= 2
        /\ stack[Len(stack) - 1].t = "obj"
        /\ CanToString(stack[Len(stack)])
        /\ Cyclic(stack[Len(stack) - 1].m)) =>
            /\ ~fatal'
            /\ Len(stack') = Len(stack) - 1]_vars

\* C16: when get_member on an Object resolves to a user Function, the
\* Function pushed has the `this' of its record set to the receiver's map,
\* the same entry offset, property map, formals, bindings and captured
\* parent; the value stored in the object is unchanged.
C16_MethodBinding ==
    [][(/\ Executes("get_member")
        /\ stack[Len(stack) - 1].t = "obj"
        /\ Owners(stack[Len(stack) - 1].m, to_string(stack[Len(stack)])) # {}
        /\ Inherited(stack[Len(stack) - 1].m,
                     to_string(stack[Len(stack)])).t = "func") =>
            LET m == stack[Len(stack) - 1].m
                f == Inherited(m, to_string(stack[Len(stack)]))
                g == Last(stack')
            IN  /\ g.t = "func"
                /\ g.callobj.this = m
                /\ g.pos = f.pos
                /\ g.obj = f.obj
                /\ g.callobj.vals = f.callobj.vals
                /\ g.callobj.param_names = f.callobj.param_names
                /\ g.callobj.parent = f.callobj.parent
                /\ heap' = heap]_vars

\* A get_member resolved to a user Function owned by the receiver's
\* prototype, not by the receiver.
C16_Witness_InheritedMethod ==
    /\ ReadObject
    /\ Owners(last.parent.m, to_string(last.member)) # {}
    /\ 1 \notin Owners(last.parent.m, to_string(last.member))
    /\ Inherited(last.parent.m, to_string(last.member)).t = "func"
    /\ last.res[1].callobj.this = last.parent.m

(***************************************************************************)
(* 32-bit immediates and jumps.                                            *)
(***************************************************************************)
\* A decoding that drops the high byte.
GetInt32NoHighByte(b) == b[1] + b[2] * 256 + b[3] * 65536

\* get_int32! with $ty = i32: the bytes are widened to i32, shifted and
\* added; the shift of the high byte by 24 wraps into the sign bit.
GetInt32Signed(b) ==
    b[1] + b[2] * 256 + b[3] * 65536
        + (IF b[4] >= 128 THEN b[4] - 256 ELSE b[4]) * 16777216

\* fn push_int32
PushInt32(b) ==
    /\ Fetch(0)
    /\ Len(stack) < MaxStack
    /\ stack' = Append(stack, Number(GetInt32Signed(b)))
    /\ pc' = pc + 5
    /\ frames' = Own(1)
    /\ steps' = steps + 1
    /\ last' = [op |-> "push_int32", bytes |-> b]
    /\ UNCHANGED <<scope, history, bp, lp, heap, recs, arrs, fatal, atEnd,
                   budget, loop_bgn_end, fv_finder>>

\* A jump relative to the address of the opcode.
JmpTargetFromOpcode(here, dst) == here - 5 + dst

\* The address jmp moves to: self_.state.pc += dst as isize, pc being the
\* address `here' of the byte after the operand.
JmpTarget(here, dst) == here + dst

\* fn jmp
Jmp(b) ==
    LET dst == GetInt32Signed(b)
        here == pc + 5
    IN  /\ Fetch(0)
        /\ loop_bgn_end' = IF dst < 0
                           THEN MapPut(loop_bgn_end, here + dst, here)
                           ELSE loop_bgn_end
        /\ pc' = JmpTarget(here, dst)
        /\ steps' = steps + 1
        /\ last' = [op |-> "jmp", bytes |-> b, from |-> pc]
        /\ UNCHANGED <<stack, scope, history, bp, lp, heap, recs, arrs, frames,
                       fatal, atEnd, budget, fv_finder>>

\* The fetch of do_run at a negative pc: self.insts[self.state.pc as usize]
\* is out of bounds.
FetchFault ==
    /\ ~fatal
    /\ pc < 0
    /\ frames # <<>>
    /\ ~atEnd
    /\ steps < budget
    /\ Die("fetch")

\* The immediates and offsets of the runs: the ends of the i32 range, the
\* values around the sign bit of each byte, and short jumps.
MinInt32 == -2147483647 - 1
Int32s ==
    {MinInt32, -2147483647, -16777216, -65536, -32768, -256, -129, -128,
     -1, 0, 1, 127, 128, 255, 256, 32767, 65536, 16777216, 2147483647}
JmpOffsets == {MinInt32, -65536, -256, -10, -5, -1, 0, 1, 5, 255, 65536}

NextJump ==
    \/ \E k \in Int32s : PushInt32(Enc32(k))
    \/ \E k \in JmpOffsets : Jmp(Enc32(k))
    \/ FetchFault

InitJump == InitRun(MaxJumpSteps)

SpecJump == InitJump /\ [][NextJump]_vars

(***************************************************************************)
(* Claims about jumps and immediates.                                      *)
(***************************************************************************)
\* C19: jmp off moves pc to the address of the byte after its operand plus
\* off and leaves the stack unchanged; a negative off adds the entry
\* target -> address after the operand to the loop-span map, which a
\* repeated execution of the same jump leaves as it is; an off >= 0 leaves
\* the map unchanged.
C19_JmpTargetAndLoopSpan ==
    [][Executes("jmp") =>
        \A off \in JmpOffsets :
            last'.bytes = Enc32(off) =>
                LET here == pc + 5
                    target == here + off
                IN  /\ pc' = target
                    /\ stack' = stack
                    /\ off >= 0 => loop_bgn_end' = loop_bgn_end
                    /\ off < 0 =>
                        /\ DOMAIN loop_bgn_end' =
                               DOMAIN loop_bgn_end \cup {target}
                        /\ loop_bgn_end'[target] = here
                        /\ \A k \in DOMAIN loop_bgn_end \ {target} :
                               loop_bgn_end'[k] = loop_bgn_end[k]
                        /\ (/\ target \in DOMAIN loop_bgn_end
                            /\ loop_bgn_end[target] = here) =>
                               loop_bgn_end' = loop_bgn_end]_vars

\* The backward jump at address 0 to address 0 has been executed twice and
\* the loop-span map holds its single entry.
C19_Witness_RepeatedBackwardJump ==
    /\ last.op = "jmp"
    /\ last.bytes = Enc32(-5)
    /\ last.from = 0
    /\ steps = 2
    /\ pc = 0
    /\ loop_bgn_end = (0 :> 5)

\* C20: push_int32 followed by the little-endian two's-complement bytes of
\* k pushes Number(k) and advances pc by 5, for negative k as for k >= 0.
C20_PushInt32RoundTrip ==
    [][Executes("push_int32") =>
        /\ pc' = pc + 5
        /\ \E k \in Int32s : last'.bytes = Enc32(k)
        /\ \A k \in Int32s :
               last'.bytes = Enc32(k) => stack' = Append(stack, Number(k))]_vars

\* A push_int32 of a negative immediate whose high byte is at least 0x80.
C20_Witness_NegativeImmediate ==
    /\ last.op = "push_int32"
    /\ last.bytes = Enc32(-129)
    /\ last.bytes[4] >= 128
    /\ Last(stack) = Number(-129)

(***************************************************************************)
(* Binary operators.                                                       *)
(***************************************************************************)
\* The opcodes bin_op! defines.
BinOps ==
    {"add", "sub", "mul", "div", "rem", "lt", "gt", "le", "ge", "eq", "ne",
     "seq", "sne", "and", "or"}

\* A Number whose value is the quotient num / den and no integer.
Fraction(num, den) == [t |-> "frac", num |-> num, den |-> den]

Abs(n) == IF n < 0 THEN -n ELSE n

\* n1 / n2 on f64.
Div(n1, n2) ==
    IF n2 # 0 /\ Abs(n1) % Abs(n2) = 0
    THEN Number((IF (n1 < 0) = (n2 < 0) THEN 1 ELSE -1)
                    * (Abs(n1) \div Abs(n2)))
    ELSE Fraction(n1, n2)

\* n1 as i64 % n2 as i64 for n2 # 0: the remainder has the sign of n1.
Rem(n1, n2) ==
    (IF n1 < 0 THEN -1 ELSE 1) * (Abs(n1) % Abs(n2))

\* (n1 as i64) & (n2 as i64) in two's complement.
RECURSIVE And(_, _)
And(n1, n2) ==
    IF n1 = 0 \/ n2 = 0 THEN 0
    ELSE IF n1 = -1 THEN n2
    ELSE IF n2 = -1 THEN n1
    ELSE 2 * And(n1 \div 2, n2 \div 2) + (n1 % 2) * (n2 % 2)

\* (n1 as i64) | (n2 as i64) in two's complement.
RECURSIVE Or(_, _)
Or(n1, n2) ==
    IF n1 = 0 THEN n2
    ELSE IF n2 = 0 THEN n1
    ELSE IF n1 = -1 \/ n2 = -1 THEN -1
    ELSE 2 * Or(n1 \div 2, n2 \div 2)
             + (IF n1 % 2 = 1 \/ n2 % 2 = 1 THEN 1 ELSE 0)

\* The arm (Number, Number) of binary: Ok of the value pushed, or Panic.
BinaryNumbers(op, n1, n2) ==
    CASE op = "add" -> Ok(Number(n1 + n2))
      [] op = "sub" -> Ok(Number(n1 - n2))
      [] op = "mul" -> Ok(Number(n1 * n2))
      [] op = "div" -> Ok(Div(n1, n2))
      [] op = "rem" -> IF n2 = 0 THEN Panic ELSE Ok(Number(Rem(n1, n2)))
      [] op = "lt" -> Ok(Bool(n1 < n2))
      [] op = "gt" -> Ok(Bool(n1 > n2))
      [] op = "le" -> Ok(Bool(n1 <= n2))
      [] op = "ge" -> Ok(Bool(n1 >= n2))
      [] op \in {"eq", "seq"} -> Ok(Bool(n1 = n2))
      [] op \in {"ne", "sne"} -> Ok(Bool(n1 # n2))
      [] op = "and" -> Ok(Number(And(n1, n2)))
      [] op = "or" -> Ok(Number(Or(n1, n2)))

\* format!("{}", v) of an operand of a concatenation.
Display(v) == IF v.t = "str" THEN v.s ELSE FormatNumber(v.n)

\* What binary pushes for the operands lhs and rhs: Ok of the sequence of
\* values pushed, or Panic.
BinaryResult(op, lhs, rhs) ==
    IF lhs.t = "num" /\ rhs.t = "num"
    THEN LET r == BinaryNumbers(op, lhs.n, rhs.n)
         IN  IF r.t = "ok" THEN Ok(<<r.x>>) ELSE Panic
    ELSE IF lhs.t \in {"num", "str"} /\ rhs.t \in {"num", "str"}
    THEN IF op = "add" THEN Ok(<<String(Display(lhs) \o Display(rhs))>>)
         ELSE Panic
    ELSE Ok(<<>>)

\* fn binary, entered from the opcode op.  The runs stop at an operand that
\* is a Number with no integer value.
Binary(op) ==
    LET rhs == stack[Len(stack)]
        lhs == stack[Len(stack) - 1]
    IN  /\ Fetch(2)
        /\ Len(stack) >= 2 => lhs.t # "frac" /\ rhs.t # "frac"
        /\ IF Len(stack) < 2 \/ BinaryResult(op, lhs, rhs).t # "ok"
           THEN Die(op)
           ELSE /\ stack' = SubSeq(stack, 1, Len(stack) - 2)
                                \o BinaryResult(op, lhs, rhs).x
                /\ pc' = pc + 1
                /\ frames' = Own(-1)
                /\ steps' = steps + 1
                /\ last' = [op |-> op, lhs |-> lhs, rhs |-> rhs]
                /\ UNCHANGED <<scope, history, bp, lp, heap, recs, arrs, fatal,
                               atEnd, budget, loop_bgn_end, fv_finder>>

\* The immediates and constants of the runs over binary operators.
ArithInt32s == {-3, -1, 0, 2}
ArithConsts == {0, 1}       \* F and "k" in ConstValue

NextArith ==
    \/ \E k \in ArithInt32s : PushInt32(Enc32(k))
    \/ \E n \in ArithConsts : PushConst(Enc32(n))
    \/ \E op \in BinOps : Binary(op)

InitArith == InitRun(MaxArithSteps)

SpecArith == InitArith /\ [][NextArith]_vars

(***************************************************************************)
(* Claims about binary operators.                                          *)
(***************************************************************************)
\* The operands are a pair binary has an arm for.
Paired(lhs, rhs) == lhs.t \in {"num", "str"} /\ rhs.t \in {"num", "str"}

\* C17: a binary opcode applied to a pair of operands that is neither
\* number/number, number/string, string/number nor string/string leaves
\* the stack as it was: both operands stay and nothing is pushed.
C17_MismatchedOperandsKeepStack ==
    [][(/\ \E op \in BinOps : Attempts(op)
        /\ Len(stack) >= 2
        /\ ~Paired(stack[Len(stack) - 1], stack[Len(stack)])) =>
            /\ ~fatal'
            /\ stack' = stack]_vars

\* C18: rem, and, or on two Numbers with integer values, a zero divisor
\* included, complete and push the one Number the operation yields on the
\* operands as signed 64-bit integers.
C18_IntegerOperators ==
    [][(/\ \E op \in {"rem", "and", "or"} : Attempts(op)
        /\ Len(stack) >= 2
        /\ stack[Len(stack) - 1].t = "num"
        /\ stack[Len(stack)].t = "num") =>
            LET n1 == stack[Len(stack) - 1].n
                n2 == stack[Len(stack)].n
                rest == SubSeq(stack, 1, Len(stack) - 2)
            IN  /\ ~fatal'
                /\ Len(stack') = Len(rest) + 1
                /\ SubSeq(stack', 1, Len(rest)) = rest
                /\ Last(stack').t = "num"
                /\ last'.op = "rem" => Last(stack').n = Rem(n1, n2)
                /\ last'.op = "and" => Last(stack').n = And(n1, n2)
                /\ last'.op = "or" => Last(stack').n = Or(n1, n2)]_vars

(***************************************************************************)
(* The interpreter restricted to the stack opcodes, object creation and    *)
(* calls.                                                                  *)
(***************************************************************************)
MaxStackSteps == 7

NextStack ==
    \/ \E n \in Int8s : PushInt8(n)
    \/ \E n \in FunctionConsts : PushConst(Enc32(n))
    \/ Double
    \/ Pop
    \/ CreateObject(Enc32(0))
    \/ \E n \in Argcs : CallFunction(Enc32(n))
    \/ Return

InitStack == InitRun(MaxStackSteps)

SpecStack == InitStack /\ [][NextStack]_vars

(***************************************************************************)
(* Claims about double and pop.                                            *)
(***************************************************************************)
\* C21: a `pop' executed immediately after a `double' that completed leaves
\* the stack, the scope stack, the history stack, bp, lp and every heap
\* object (property maps, activation records, arrays) as they were before
\* the `double'; pc is the only field that differs, advanced by 2.
C21_DoublePopIdentity ==
    [][(last.op = "double" /\ Executes("pop")) =>
           /\ stack' = last.before.stack
           /\ scope' = last.before.scope
           /\ history' = last.before.history
           /\ bp' = last.before.bp
           /\ lp' = last.before.lp
           /\ heap' = last.before.heap
           /\ recs' = last.before.recs
           /\ arrs' = last.before.arrs
           /\ pc' = last.before.pc + 2]_vars

\* A `double' then `pop' inside a called function, with an object made
\* before the pair on the stack and the stack back to what it was.
C21_Witness_PairInsideCall ==
    /\ last.op = "pop"
    /\ last.undoes # <<>>
    /\ Len(scope) >= 2
    /\ Len(heap) > Len(InitHeap) + 1
    /\ stack # <<>>
    /\ stack = last.undoes[1].stack

(***************************************************************************)
(* Local slots, the argument window and rest parameters.                   *)
(***************************************************************************)
\* fn create_context: the operand is decoded and dropped; the stack, bp and
\* lp are left alone.  The frame of the running invocation remembers the
\* operand and the height of the stack at the instruction (`reserved' and
\* `base'), which the machine itself keeps nowhere.
CreateContext(b) ==
    /\ Fetch(0)
    /\ pc' = pc + 5
    /\ frames' = [frames EXCEPT ![Len(frames)] =
                     [reserved |-> GetInt32(b), base |-> Len(stack)] @@ @]
    /\ steps' = steps + 1
    /\ last' = [op |-> "create_context"]
    /\ UNCHANGED <<stack, scope, history, bp, lp, heap, recs, arrs, fatal,
                   atEnd, budget, loop_bgn_end, fv_finder>>

\* fn get_local
GetLocal(b) ==
    LET n == GetInt32(b)
    IN  /\ Fetch(0)
        /\ Len(stack) < MaxStack
        /\ IF lp + n >= Len(stack)
           THEN Die("get_local")
           ELSE /\ stack' = Append(stack, stack[lp + n + 1])
                /\ pc' = pc + 5
                /\ frames' = Own(1)
                /\ steps' = steps + 1
                /\ last' = [op |-> "get_local", n |-> n]
                /\ UNCHANGED <<scope, history, bp, lp, heap, recs, arrs, fatal,
                               atEnd, budget, loop_bgn_end, fv_finder>>

\* fn set_local
SetLocal(b) ==
    LET n == GetInt32(b)
    IN  /\ Fetch(1)
        /\ IF stack = <<>> \/ lp + n >= Len(stack) - 1
           THEN Die("set_local")
           ELSE /\ stack' = [Front(stack) EXCEPT ![lp + n + 1] = Last(stack)]
                /\ pc' = pc + 5
                /\ frames' = Own(-1)
                /\ steps' = steps + 1
                /\ last' = [op |-> "set_local", n |-> n, val |-> Last(stack)]
                /\ UNCHANGED <<scope, history, bp, lp, heap, recs, arrs, fatal,
                               atEnd, budget, loop_bgn_end, fv_finder>>

\* fn push_arguments
PushArguments ==
    /\ Fetch(0)
    /\ Len(stack) < MaxStack
    /\ stack' = Append(stack, Arguments)
    /\ pc' = pc + 1
    /\ frames' = Own(1)
    /\ steps' = steps + 1
    /\ last' = [op |-> "push_arguments"]
    /\ UNCHANGED <<scope, history, bp, lp, heap, recs, arrs, fatal, atEnd,
                   budget, loop_bgn_end, fv_finder>>

\* The loop of assign_func_rest_param: stack[bp + i] for i in
\* num_func_param .. (lp - bp) - 1, Ok of the values or Panic.
RestParams(num_func_param) ==
    IF lp - bp > num_func_param /\ lp > Len(stack) THEN Panic
    ELSE Ok([i \in 1 .. (IF lp - bp > num_func_param
                         THEN lp - bp - num_func_param ELSE 0) |->
                stack[bp + num_func_param + i]])

\* fn assign_func_rest_param
AssignFuncRestParam(b1, b2) ==
    LET num_func_param == GetInt32(b1)
        dst_var_id == GetInt32(b2)
        rest_params == RestParams(num_func_param)
    IN  /\ Fetch(0)
        /\ IF lp < bp \/ rest_params.t # "ok"
              \/ lp + dst_var_id >= Len(stack)
           THEN Die("assign_func_rest_param")
           ELSE /\ heap' = Append(heap, ArrayPrototype)
                /\ arrs' = Append(arrs, ArrayValue_new(rest_params.x,
                                                       Len(heap) + 1))
                /\ stack' = [stack EXCEPT ![lp + dst_var_id + 1] =
                                Array(Len(arrs) + 1)]
                /\ pc' = pc + 9
                /\ steps' = steps + 1
                /\ last' = [op |-> "assign_func_rest_param",
                            num_func_param |-> num_func_param,
                            dst_var_id |-> dst_var_id,
                            arr |-> Len(arrs) + 1]
                /\ UNCHANGED <<scope, history, bp, lp, recs, frames, fatal,
                               atEnd, budget, loop_bgn_end, fv_finder>>

(***************************************************************************)
(* The interpreter restricted to the stack opcodes, local slots, the       *)
(* Arguments value and calls.                                              *)
(***************************************************************************)
MaxLocalSteps == 6
MaxLocals == 2

NextLocal ==
    \/ \E n \in MemberInt8s : PushInt8(n)
    \/ \E n \in MemberConsts : PushConst(Enc32(n))
    \/ PushArguments
    \/ \E k \in 1 .. MaxLocals : CreateContext(Enc32(k))
    \/ \E n \in 0 .. MaxLocals - 1 : GetLocal(Enc32(n))
    \/ \E n \in 0 .. MaxLocals - 1 : SetLocal(Enc32(n))
    \/ \E n \in 0 .. MaxArgc, d \in 0 .. MaxLocals - 1 :
           AssignFuncRestParam(Enc32(n), Enc32(d))
    \/ GetMember
    \/ \E n \in Argcs : CallFunction(Enc32(n))
    \/ Return

InitLocal == InitRun(MaxLocalSteps)

SpecLocal == InitLocal /\ [][NextLocal]_vars

(***************************************************************************)
(* Claims about local slots, the argument window and rest parameters.      *)
(***************************************************************************)
\* The running invocation has executed create_context k with k > n.
Reserved(n) ==
    /\ frames # <<>>
    /\ "reserved" \in DOMAIN Last(frames)
    /\ n < Last(frames).reserved

\* C22: once the running invocation has executed `create_context k', for
\* every n < k a `set_local n' completes, stores the popped value in
\* stack[lp + n], and that slot lies neither below the stack height at the
\* create_context (slots of this or an enclosing invocation) nor among the
\* operands the invocation still holds on top of the stack; a `get_local n'
\* that follows it completes and pushes the stored value.
C22_ReservedLocalSlots ==
    [][\A n \in 0 .. MaxLocals - 1 :
          /\ (Reserved(n) /\ Attempts("set_local") /\ SetLocal(Enc32(n))) =>
                /\ ~fatal'
                /\ stack'[lp + n + 1] = Last(stack)
                /\ lp + n >= Last(frames).base
                /\ lp + n < Len(stack') - Last(frames').own
          /\ (Reserved(n) /\ last.op = "set_local" /\ last.n = n
                 /\ Attempts("get_local") /\ GetLocal(Enc32(n))) =>
                /\ ~fatal'
                /\ Last(stack') = last.val]_vars

\* The running invocation was started by `call'.
InCall == frames # <<>> /\ Last(frames).kind = "call"

\* C23: inside a function started by `call argc', a get_member on the
\* Arguments value with key "length" yields Number(argc), and with key
\* Number(k), 0 <= k < argc, yields the k-th argument of that call.
C23_ArgumentWindow ==
    (last.op = "get_member" /\ last.parent = Arguments /\ InCall) =>
        LET args == Last(frames).args
        IN  /\ last.member = String("length") =>
                last.res = <<Number(Len(args))>>
            /\ (last.member.t = "num" /\ last.member.n \in 0 .. Len(args) - 1)
                   => last.res = <<args[last.member.n + 1]>>

\* C24: in a function started by `call' with argc arguments, a completed
\* assign_func_rest_param(nparams, dst) leaves at stack[lp + dst] a new
\* Array holding the arguments nparams .. argc - 1 in order, of length
\* argc - nparams (empty when argc <= nparams); and a `call' with more
\* arguments than the callee has formals does not panic.
C24_RestParameters ==
    [][/\ (InCall /\ Attempts("assign_func_rest_param")) =>
             /\ ~fatal'
             /\ LET args == Last(frames).args
                    n == last'.num_func_param
                    a == arrs'[last'.arr]
                IN  /\ stack'[lp + last'.dst_var_id + 1] = Array(last'.arr)
                    /\ a.elems = SubSeq(args, n + 1, Len(args))
                    /\ a.length = Len(a.elems)
       /\ (\E n \in Argcs :
               /\ Attempts("call")
               /\ CallFunction(Enc32(n))
               /\ n < Len(stack)
               /\ n > Len(UnwrapCallee(Last(stack)).callobj.param_names))
             => ~fatal']_vars

(***************************************************************************)
(* The free-variable analyzer (fv_finder.rs).  fv_finder holds the fields  *)
(* of FreeVariableFinder, the AST run_toplevel annotates in place (`ast'), *)
(* the AST as the parser left it (`source'), the work the recursion of     *)
(* run_toplevel and run still has to do (`agenda', innermost first), the   *)
(* number of analyses started (`run') and the AST the analysis before this *)
(* one left (`first').  A node is a record whose field k is the variant of *)
(* enum Node; an Option or Vec field is a sequence.  A node is addressed   *)
(* by its path from the root: a sequence of steps [f, i], the field f and  *)
(* the index i in it (0 for a field that holds one node).                  *)
(***************************************************************************)
\* The node of n at path p.
RECURSIVE NodeAt(_, _)
NodeAt(n, p) ==
    IF p = <<>> THEN n
    ELSE NodeAt(IF Head(p).i = 0 THEN n[Head(p).f]
                ELSE n[Head(p).f][Head(p).i], Tail(p))

\* The tree n with the node at path p replaced by v (a write through the
\* &mut Node the recursion holds).
RECURSIVE SetAt(_, _, _)
SetAt(n, p, v) ==
    IF p = <<>> THEN v
    ELSE IF Head(p).i = 0
         THEN [n EXCEPT ![Head(p).f] = SetAt(@, Tail(p), v)]
         ELSE [n EXCEPT ![Head(p).f][Head(p).i] = SetAt(@, Tail(p), v)]

\* A generator that goes on where the finder before it stopped.
XorShiftRng_continued == fv_finder.xorshift

\* XorShiftRng::new_unseeded(): the generator at the start of the sequence
\* its fixed seed produces.  The generator is modelled by its position in
\* that sequence.
XorShiftRng_new_unseeded == 0

\* self.xorshift.next_u32(): the position after one more draw; the u32
\* drawn is written as that position.
next_u32(xorshift) == xorshift + 1

\* FreeVariableFinder::new()
FreeVariableFinder_new ==
    [varmap |-> << {"console"} >>,
     cur_fv |-> {},
     mangled_function_name |-> <<>>,
     use_this |-> FALSE,
     xorshift |-> XorShiftRng_new_unseeded]

\* The work items that run the children of the node at path p reached by
\* the path steps cs, in order.
RunItems(p, cs) ==
    [i \in 1 .. Len(cs) |-> [w |-> "run", path |-> Append(p, cs[i])]]

\* The finder after a step that leaves the agenda a.
Finder(f, a) ==
    [run |-> fv_finder.run, source |-> fv_finder.source,
     first |-> fv_finder.first, ast |-> f.ast, agenda |-> a,
     varmap |-> f.varmap, cur_fv |-> f.cur_fv,
     mangled_function_name |-> f.mangled_function_name,
     use_this |-> f.use_this, xorshift |-> f.xorshift]

\* The head of the agenda is the work w on a node of variant k.
AtWork(w, ks) ==
    /\ fv_finder.agenda # <<>>
    /\ Head(fv_finder.agenda).w = w
    /\ NodeAt(fv_finder.ast, Head(fv_finder.agenda).path).k \in ks

\* let mut fv_finder = FreeVariableFinder::new();
\* fv_finder.run_toplevel(&mut node): the entry of run_toplevel.  The first
\* loop takes the statements in order (a FunctionDecl is only declared),
\* the second runs each FunctionDecl and clears use_this after it.
Analyze ==
    LET nodes == fv_finder.source.nodes
        ids == [i \in 1 .. Len(nodes) |-> i]
        IsDecl(i) == nodes[i].k = "FunctionDecl"
        Step(i) == [f |-> "nodes", i |-> i]
        loop1 == [i \in 1 .. Len(nodes) |->
                     [w |-> IF IsDecl(i) THEN "declare" ELSE "run",
                      path |-> <<Step(i)>>]]
        func_decl_index == SelectSeq(ids, IsDecl)
        loop2 == [j \in 1 .. 2 * Len(func_decl_index) |->
                     IF j % 2 = 1
                     THEN [w |-> "run",
                           path |-> <<Step(func_decl_index[(j + 1) \div 2])>>]
                     ELSE [w |-> "clear", path |-> <<>>]]
    IN  /\ fv_finder.agenda = <<>>
        /\ fv_finder.run < 2
        /\ fv_finder' =
               [run |-> fv_finder.run + 1, source |-> fv_finder.source,
                first |-> IF fv_finder.run = 0 THEN <<>>
                          ELSE <<fv_finder.ast>>,
                ast |-> fv_finder.source, agenda |-> loop1 \o loop2,
                varmap |-> FreeVariableFinder_new.varmap,
                cur_fv |-> FreeVariableFinder_new.cur_fv,
                mangled_function_name |->
                    FreeVariableFinder_new.mangled_function_name,
                use_this |-> FreeVariableFinder_new.use_this,
                xorshift |-> FreeVariableFinder_new.xorshift]
        /\ UNCHANGED <<stack, scope, history, pc, bp, lp, heap, recs, arrs,
                       frames, fatal, atEnd, steps, budget, loop_bgn_end,
                       last>>

\* run_toplevel, first loop, arm FunctionDecl: self.varmap[0].insert(name)
DeclareToplevel ==
    LET node == NodeAt(fv_finder.ast, Head(fv_finder.agenda).path)
    IN  /\ AtWork("declare", {"FunctionDecl"})
        /\ fv_finder' =
               Finder([fv_finder EXCEPT !.varmap[1] = @ \cup {node.name}],
                      Tail(fv_finder.agenda))
        /\ UNCHANGED <<stack, scope, history, pc, bp, lp, heap, recs, arrs,
                       frames, fatal, atEnd, steps, budget, loop_bgn_end,
                       last>>

\* run_toplevel, second loop: self.use_this = false
ClearUseThis ==
    /\ fv_finder.agenda # <<>>
    /\ Head(fv_finder.agenda).w = "clear"
    /\ fv_finder' = Finder([fv_finder EXCEPT !.use_this = FALSE],
                           Tail(fv_finder.agenda))
    /\ UNCHANGED <<stack, scope, history, pc, bp, lp, heap, recs, arrs,
                   frames, fatal, atEnd, steps, budget, loop_bgn_end, last>>

\* run, arm FunctionDecl, up to the loops over the body: the name set and
\* the mangling map are pushed, the declarations of the body are hoisted
\* and renamed, and the body is left to run: the statements that are no
\* declaration first, the declarations after, the end of the arm last.
EnterFunction ==
    LET p == Head(fv_finder.agenda).path
        node == NodeAt(fv_finder.ast, p)
        body == node.body.nodes
        ids == [i \in 1 .. Len(body) |-> i]
        IsDecl(i) == body[i].k = "FunctionDecl"
        IsOther(i) == ~IsDecl(i)
        func_decl_index == SelectSeq(ids, IsDecl)
        decls == {i \in 1 .. Len(body) : IsDecl(i)}
        varmap1 == Append(fv_finder.varmap,
                          {node.name}
                              \cup {node.params[i] :
                                       i \in 1 .. Len(node.params)})
        nested == Len(varmap1) + 1 > 2
        Draws(i) == Cardinality({j \in decls : j <= i})
        RECURSIVE Drawn(_, _)
        Drawn(x, n) == IF n = 0 THEN x ELSE Drawn(next_u32(x), n - 1)
        mangled_name(i) ==
            body[i].name \o "." \o
                FormatNumber(Drawn(fv_finder.xorshift, Draws(i)))
        LastDecl(nm) ==
            CHOOSE i \in decls :
                /\ body[i].name = nm
                /\ \A j \in decls : body[j].name = nm => j <= i
        map == IF nested
               THEN [nm \in {body[i].name : i \in decls} |->
                        mangled_name(LastDecl(nm))]
               ELSE EmptyMap
        body1 == [i \in 1 .. Len(body) |->
                     IF IsDecl(i) /\ nested
                     THEN [body[i] EXCEPT !.name = mangled_name(i)]
                     ELSE body[i]]
        Step(i) == [f |-> "nodes", i |-> i]
        pb == Append(p, [f |-> "body", i |-> 0])
        StepsOf(s) == [j \in 1 .. Len(s) |-> Step(s[j])]
    IN  /\ AtWork("run", {"FunctionDecl"})
        /\ fv_finder' =
               Finder([varmap |-> [varmap1 EXCEPT ![Len(varmap1)] =
                                      @ \cup {body[i].name : i \in decls}],
                       cur_fv |-> fv_finder.cur_fv,
                       mangled_function_name |->
                           Append(fv_finder.mangled_function_name, map),
                       use_this |-> fv_finder.use_this,
                       xorshift |->
                           IF nested
                           THEN Drawn(fv_finder.xorshift, Cardinality(decls))
                           ELSE fv_finder.xorshift,
                       ast |-> SetAt(fv_finder.ast, p,
                                     [node EXCEPT !.body.nodes = body1])],
                      RunItems(pb, StepsOf(SelectSeq(ids, IsOther)))
                          \o RunItems(pb, StepsOf(func_decl_index))
                          \o <<[w |-> "exit", path |-> p]>>
                          \o Tail(fv_finder.agenda))
        /\ UNCHANGED <<stack, scope, history, pc, bp, lp, heap, recs, arrs,
                       frames, fatal, atEnd, steps, budget, loop_bgn_end,
                       last>>

\* The end of the arm FunctionDecl without the pop of the mangling map.
ExitFunctionKeepsMap ==
    LET p == Head(fv_finder.agenda).path
        node == NodeAt(fv_finder.ast, p)
        varmap == fv_finder.varmap
        cur_fv == fv_finder.cur_fv \ Last(varmap)
        popped == Front(varmap)
    IN  /\ AtWork("exit", {"FunctionDecl"})
        /\ fv_finder' =
               Finder([varmap |-> [popped EXCEPT ![Len(popped)] =
                                      @ \cup {node.name}],
                       cur_fv |-> cur_fv,
                       mangled_function_name |->
                           fv_finder.mangled_function_name,
                       use_this |-> fv_finder.use_this,
                       xorshift |-> fv_finder.xorshift,
                       ast |-> SetAt(fv_finder.ast, p,
                                     [node EXCEPT
                                         !.fv = cur_fv,
                                         !.use_this = fv_finder.use_this])],
                      Tail(fv_finder.agenda))
        /\ UNCHANGED <<stack, scope, history, pc, bp, lp, heap, recs, arrs,
                       frames, fatal, atEnd, steps, budget, loop_bgn_end,
                       last>>

\* run, arm FunctionDecl, after the loops over the body: the mangling map
\* is popped, the names of the function are taken out of cur_fv, the
\* annotations are written, the name set is popped and the name of the
\* function is declared in the enclosing set.
ExitFunction ==
    LET p == Head(fv_finder.agenda).path
        node == NodeAt(fv_finder.ast, p)
        varmap == fv_finder.varmap
        cur_fv == fv_finder.cur_fv \ Last(varmap)
        popped == Front(varmap)
    IN  /\ AtWork("exit", {"FunctionDecl"})
        /\ fv_finder' =
               Finder([varmap |-> [popped EXCEPT ![Len(popped)] =
                                      @ \cup {node.name}],
                       cur_fv |-> cur_fv,
                       mangled_function_name |->
                           Front(fv_finder.mangled_function_name),
                       use_this |-> fv_finder.use_this,
                       xorshift |-> fv_finder.xorshift,
                       ast |-> SetAt(fv_finder.ast, p,
                                     [node EXCEPT
                                         !.fv = cur_fv,
                                         !.use_this = fv_finder.use_this])],
                      Tail(fv_finder.agenda))
        /\ UNCHANGED <<stack, scope, history, pc, bp, lp, heap, recs, arrs,
                       frames, fatal, atEnd, steps, budget, loop_bgn_end,
                       last>>

\* run, arm Identifier
RunIdentifier ==
    LET p == Head(fv_finder.agenda).path
        node == NodeAt(fv_finder.ast, p)
        varmap == fv_finder.varmap
        mangled == fv_finder.mangled_function_name
        is_fv_or_gv == node.name \notin varmap[1]
                           /\ node.name \notin Last(varmap)
        name == IF mangled # <<>> /\ MapHas(Last(mangled), node.name)
                THEN Last(mangled)[node.name]
                ELSE node.name
    IN  /\ AtWork("run", {"Identifier"})
        /\ fv_finder' =
               Finder([fv_finder EXCEPT
                          !.ast = SetAt(@, p, [node EXCEPT !.name = name]),
                          !.varmap[1] =
                              IF is_fv_or_gv /\ Len(varmap) = 1
                              THEN @ \cup {name} ELSE @,
                          !.cur_fv =
                              IF is_fv_or_gv /\ Len(varmap) # 1
                              THEN @ \cup {name} ELSE @],
                      Tail(fv_finder.agenda))
        /\ UNCHANGED <<stack, scope, history, pc, bp, lp, heap, recs, arrs,
                       frames, fatal, atEnd, steps, budget, loop_bgn_end,
                       last>>

\* run, arm This
RunThis ==
    /\ AtWork("run", {"This"})
    /\ fv_finder' = Finder([fv_finder EXCEPT !.use_this = TRUE],
                           Tail(fv_finder.agenda))
    /\ UNCHANGED <<stack, scope, history, pc, bp, lp, heap, recs, arrs,
                   frames, fatal, atEnd, steps, budget, loop_bgn_end, last>>

\* run, arm VarDecl
RunVarDecl ==
    LET p == Head(fv_finder.agenda).path
        node == NodeAt(fv_finder.ast, p)
        varmap == fv_finder.varmap
    IN  /\ AtWork("run", {"VarDecl"})
        /\ fv_finder' =
               Finder([fv_finder EXCEPT
                          !.varmap[Len(varmap)] = @ \cup {node.name}],
                      RunItems(p, [i \in 1 .. Len(node.init) |->
                                      [f |-> "init", i |-> i]])
                          \o Tail(fv_finder.agenda))
        /\ UNCHANGED <<stack, scope, history, pc, bp, lp, heap, recs, arrs,
                       frames, fatal, atEnd, steps, budget, loop_bgn_end,
                       last>>

\* run, arm Assign.  A target that is neither an Identifier nor a Member
\* is unimplemented!(): the analysis stops there.
RunAssign ==
    LET p == Head(fv_finder.agenda).path
        node == NodeAt(fv_finder.ast, p)
        dst == node.dst
        varmap == fv_finder.varmap
        seen == \E i \in 1 .. Len(varmap) : dst.name \in varmap[i]
        src == <<[f |-> "src", i |-> 0]>>
    IN  /\ AtWork("run", {"Assign"})
        /\ fv_finder' =
               CASE dst.k = "Identifier" ->
                       Finder([fv_finder EXCEPT
                                  !.varmap[1] =
                                      IF ~seen THEN @ \cup {dst.name} ELSE @,
                                  !.cur_fv =
                                      IF seen /\ dst.name \notin varmap[1]
                                           /\ dst.name \notin Last(varmap)
                                      THEN @ \cup {dst.name} ELSE @],
                              RunItems(p, src) \o Tail(fv_finder.agenda))
                 [] dst.k = "Member" ->
                       Finder(fv_finder,
                              RunItems(Append(p, [f |-> "dst", i |-> 0]),
                                       <<[f |-> "parent", i |-> 0]>>)
                                  \o RunItems(p, src)
                                  \o Tail(fv_finder.agenda))
                 [] OTHER -> Finder(fv_finder, <<>>)
        /\ UNCHANGED <<stack, scope, history, pc, bp, lp, heap, recs, arrs,
                       frames, fatal, atEnd, steps, budget, loop_bgn_end,
                       last>>

\* The children run visits, in order, for the arms that only recurse:
\* StatementList, Call, Return, Member, If, While, UnaryOp, BinaryOp,
\* TernaryOp; none for the arm `_ => {}'.
Children(node) ==
    LET One(f) == <<[f |-> f, i |-> 0]>>
        All(f) == [i \in 1 .. Len(node[f]) |-> [f |-> f, i |-> i]]
    IN  CASE node.k = "StatementList" -> All("nodes")
          [] node.k = "Call" -> One("callee") \o All("args")
          [] node.k = "Return" -> All("val")
          [] node.k = "Member" -> One("parent")
          [] node.k \in {"If", "TernaryOp"} ->
                One("cond") \o One("then") \o One("else_")
          [] node.k = "While" -> One("cond") \o One("body")
          [] node.k = "UnaryOp" -> One("expr")
          [] node.k = "BinaryOp" -> One("lhs") \o One("rhs")
          [] OTHER -> <<>>

\* run, the arms that only recurse
RunChildren ==
    LET p == Head(fv_finder.agenda).path
        node == NodeAt(fv_finder.ast, p)
    IN  /\ fv_finder.agenda # <<>>
        /\ Head(fv_finder.agenda).w = "run"
        /\ node.k \notin {"FunctionDecl", "Identifier", "This", "VarDecl",
                          "Assign"}
        /\ fv_finder' = Finder(fv_finder,
                               RunItems(p, Children(node))
                                   \o Tail(fv_finder.agenda))
        /\ UNCHANGED <<stack, scope, history, pc, bp, lp, heap, recs, arrs,
                       frames, fatal, atEnd, steps, budget, loop_bgn_end,
                       last>>

(***************************************************************************)
(* The analyzer on every program of at most MaxNodes statements and        *)
(* declarations, functions nested at most MaxNest deep, analyzed twice,    *)
(* each time by a fresh finder.                                            *)
(***************************************************************************)
MaxNodes == 4
MaxNest == 3

\* The ASTs the parser hands over.  A function declared at depth d is named
\* FnName[d]; the functions at depth 2 have the formal x.  The statements
\* that are no declaration: `return x;', `g();', `var x;', `y = this;'.
Programs ==
    LET FnName == [d \in 1 .. MaxNest |->
                      IF d = 1 THEN "f" ELSE IF d = 2 THEN "g" ELSE "h"]
        Params(d) == IF d = 2 THEN <<"x">> ELSE <<>>
        Id(name) == [k |-> "Identifier", name |-> name]
        List(nodes) == [k |-> "StatementList", nodes |-> nodes]
        Leaves ==
            {[k |-> "Return", val |-> <<Id("x")>>],
             [k |-> "Call", callee |-> Id("g"), args |-> <<>>],
             [k |-> "VarDecl", name |-> "x", init |-> <<>>],
             [k |-> "Assign", dst |-> Id("y"), src |-> [k |-> "This"]]}
        Fn(d, body) ==
            [k |-> "FunctionDecl", name |-> FnName[d], use_this |-> FALSE,
             fv |-> {}, params |-> Params(d), body |-> List(body)]
        RECURSIVE Bodies(_, _), Stmts(_, _)
        \* The statement lists at depth d of exactly n nodes.
        Bodies(n, d) ==
            IF n = 0 THEN {<<>>}
            ELSE UNION {{<<s>> \o r : s \in Stmts(m, d),
                                      r \in Bodies(n - m, d)} :
                           m \in 1 .. n}
        \* The statements and declarations at depth d of exactly n nodes.
        Stmts(n, d) ==
            (IF n = 1 THEN Leaves ELSE {})
                \cup (IF d < MaxNest
                      THEN {Fn(d + 1, b) : b \in Bodies(n - 1, d + 1)}
                      ELSE {})
    IN  UNION {{List(b) : b \in Bodies(n, 0)} : n \in 0 .. MaxNodes}

NextAnalyzer ==
    \/ Analyze
    \/ DeclareToplevel
    \/ ClearUseThis
    \/ EnterFunction
    \/ ExitFunction
    \/ RunIdentifier
    \/ RunThis
    \/ RunVarDecl
    \/ RunAssign
    \/ RunChildren

\* The parser has produced a program; no finder exists yet and the VM is
\* not running.
InitAnalyzer ==
    /\ \E program \in Programs :
           fv_finder = [run |-> 0, source |-> program, first |-> <<>>,
                        ast |-> program, agenda |-> <<>>, varmap |-> <<>>,
                        cur_fv |-> {}, mangled_function_name |-> <<>>,
                        use_this |-> FALSE, xorshift |-> 0]
    /\ stack = <<>>
    /\ scope = <<>>
    /\ history = <<>>
    /\ pc = 0
    /\ bp = 0
    /\ lp = 0
    /\ heap = <<>>
    /\ recs = <<>>
    /\ arrs = <<>>
    /\ frames = <<>>
    /\ fatal = FALSE
    /\ atEnd = FALSE
    /\ steps = 0
    /\ budget = 0
    /\ loop_bgn_end = EmptyMap
    /\ last = [op |-> "none"]

SpecAnalyzer == InitAnalyzer /\ [][NextAnalyzer]_vars

(***************************************************************************)
(* Claims about the analyzer.                                              *)
(***************************************************************************)
\* An analysis has run to its end.
Analyzed == fv_finder.run >= 1 /\ fv_finder.agenda = <<>>

\* The path steps to every child of a node, function bodies, initializers
\* and assignment targets included.
Kids(node) ==
    CASE node.k = "FunctionDecl" -> <<[f |-> "body", i |-> 0]>>
      [] node.k = "VarDecl" ->
            [i \in 1 .. Len(node.init) |-> [f |-> "init", i |-> i]]
      [] node.k = "Assign" ->
            <<[f |-> "dst", i |-> 0], [f |-> "src", i |-> 0]>>
      [] OTHER -> Children(node)

\* The paths of the nodes of the program at or below path p.
RECURSIVE PathsIn(_)
PathsIn(p) ==
    LET cs == Kids(NodeAt(fv_finder.source, p))
    IN  {p} \cup UNION {PathsIn(Append(p, cs[i])) : i \in 1 .. Len(cs)}

\* The node at path p as parsed, and as annotated.
Parsed(p) == NodeAt(fv_finder.source, p)
Annotated(p) == NodeAt(fv_finder.ast, p)

FunctionPaths == {p \in PathsIn(<<>>) : Parsed(p).k = "FunctionDecl"}

\* p is a proper prefix of q: the node at q lies inside the node at p.
Inside(q, p) == Len(p) < Len(q) /\ SubSeq(q, 1, Len(p)) = p

\* The innermost function that contains the node at q (<<>> at top level).
Owner(q) ==
    LET fs == {p \in FunctionPaths : Inside(q, p)}
    IN  IF fs = {} THEN <<>>
        ELSE CHOOSE p \in fs : \A r \in fs : Len(r) <= Len(p)

\* The nodes of variant k that belong to the function at p itself, not to
\* a function nested in it.
OwnNodes(p, k) ==
    {q \in PathsIn(p) : Parsed(q).k = k /\ Owner(q) = p}

\* The names the function at p binds: its own name, its formals, its var
\* declarations and the functions declared in its body (as parsed and as
\* renamed), and the globals.
Bound(p) ==
    {Parsed(p).name, Annotated(p).name}
        \cup {Parsed(p).params[i] : i \in 1 .. Len(Parsed(p).params)}
        \cup {Parsed(q).name : q \in OwnNodes(p, "VarDecl")}
        \cup {Parsed(q).name : q \in OwnNodes(p, "FunctionDecl")}
        \cup {Annotated(q).name : q \in OwnNodes(p, "FunctionDecl")}
        \cup fv_finder.varmap[1]

\* The free variables of the function at p: the identifiers of its body,
\* the free variables of the functions nested in it included, that it does
\* not bind.
RECURSIVE Free(_)
Free(p) ==
    ({Annotated(q).name : q \in OwnNodes(p, "Identifier")}
         \cup UNION {Free(q) : q \in OwnNodes(p, "FunctionDecl")})
        \ Bound(p)

\* C25: after an analysis, the fv annotation of every function node is the
\* set of the identifiers appearing in its body that are neither its own
\* name, a formal, a local declaration (hoisted inner functions included)
\* nor a global.
C25_FreeVariableSets ==
    Analyzed => \A p \in FunctionPaths : Annotated(p).fv = Free(p)

\* The names the functions declared inside a function got, for the
\* functions parsed under the name nm whose enclosing function contains
\* the node at q.
RenamedFor(q, nm) ==
    {Annotated(p).name :
        p \in {r \in FunctionPaths :
                  /\ Owner(r) # <<>>
                  /\ Parsed(r).name = nm
                  /\ Inside(q, Owner(r))}}

\* C26: after an analysis, every function declared inside a function is
\* named <original>.<u32>, every identifier inside the enclosing function's
\* body that names it (inside the nested function and deeper included)
\* carries that mangled name, every other identifier is as parsed, and a
\* top-level function keeps its name.
C26_MangledNames ==
    Analyzed =>
        /\ \A p \in FunctionPaths :
               IF Owner(p) = <<>> THEN Annotated(p).name = Parsed(p).name
               ELSE \E u \in 1 .. MaxNodes + 1 :
                        Annotated(p).name =
                            Parsed(p).name \o "." \o FormatNumber(u)
        /\ \A q \in {r \in PathsIn(<<>>) : Parsed(r).k = "Identifier"} :
               IF RenamedFor(q, Parsed(q).name) = {}
               THEN Annotated(q).name = Parsed(q).name
               ELSE Annotated(q).name \in RenamedFor(q, Parsed(q).name)

\* C27: after an analysis, the use_this annotation of every function node
\* tells whether `this' appears in the function's own body, nested blocks
\* and expressions included, functions nested in it excluded.
C27_UseThis ==
    Analyzed =>
        \A p \in FunctionPaths :
            Annotated(p).use_this = (OwnNodes(p, "This") # {})

builtin_functions(x, args) == {<<>>, <<Undefined>>}

\* fn call, arm Value::BuiltinFunction, reached through the arms NeedThis
\* and WithThis.  The step remembers the index and the arguments handed to
\* the host function and the stack it was handed.
CallBuiltin(b) ==
    LET argc == GetInt32(b)
        callee == UnwrapCallee(Last(stack))
        this == UnwrapThis(Last(stack), <<>>)
        st1 == Front(stack)
        rest == SubSeq(st1, 1, Len(st1) - argc)
        args == this \o SubSeq(st1, Len(st1) - argc + 1, Len(st1))
    IN  /\ Fetch(argc + 1)
        /\ stack # <<>>
        /\ callee.t = "builtin"
        /\ IF argc > Len(st1)
           THEN Die("call")
           ELSE \E pushed \in builtin_functions(callee.k, args) :
                    /\ stack' = rest \o pushed
                    /\ pc' = pc + 5
                    /\ frames' = Own(-argc)
                    /\ steps' = steps + 1
                    /\ last' = [op |-> "call", callee |-> callee,
                                host |-> callee.k, args |-> args,
                                rest |-> rest, pushed |-> pushed]
                    /\ UNCHANGED <<scope, history, bp, lp, heap, recs, arrs,
                                   fatal, atEnd, budget, loop_bgn_end,
                                   fv_finder>>

(***************************************************************************)
(* The interpreter restricted to the opcodes that reach and call the host  *)
(* functions console.log and Array.prototype.push.                         *)
(***************************************************************************)
MaxBuiltinSteps == 6
MaxBuiltinArgc == 2

\* The constants pushed are "push" and "log" (4 and 5 in ConstValue), the
\* name read is console (2 in ConstString).
NextBuiltin ==
    \/ \E n \in Int8s : PushInt8(n)
    \/ \E n \in {4, 5} : PushConst(Enc32(n))
    \/ CreateArray(Enc32(0))
    \/ GetName(Enc32(2))
    \/ GetMember
    \/ \E n \in 0 .. MaxBuiltinArgc : CallBuiltin(Enc32(n))
    \/ \E n \in 0 .. MaxBuiltinArgc : CallError(Enc32(n))

InitBuiltin == InitRun(MaxBuiltinSteps)

SpecBuiltin == InitBuiltin /\ [][NextBuiltin]_vars

Invocations(fs) == [i \in 1 .. Len(fs) |-> fs[i].rec]

\* C30: a RETURN executed in an invocation started by `call' or `construct'
\* ends that invocation and no other: the invocations below it stay, the
\* caller goes on at the return address saved by the instruction that
\* started the invocation, and its loop is neither ended nor at END; an END
\* at top level ends the run.  The invocations in progress change only by
\* a call or construct suspending the running one under a new one, or by a
\* RETURN or END ending the running one; an invocation that ended never
\* comes back.
C30_ReturnEndsOneInvocation ==
    [][/\ (Executes("return") /\ Len(frames) >= 2) =>
              /\ Invocations(frames') = Front(Invocations(frames))
              /\ pc' = Last(frames).ret
              /\ ~atEnd'
              /\ ~fatal'
       /\ (Executes("end") /\ Len(frames) = 1) => frames' = <<>>
       /\ \/ Invocations(frames') = Invocations(frames)
          \/ /\ Executes("call") \/ Executes("construct")
             /\ Front(Invocations(frames')) = Invocations(frames)
             /\ Last(frames').rec > Len(recs)
          \/ /\ Executes("return") \/ Executes("end")
             /\ frames # <<>>
             /\ Invocations(frames') = Front(Invocations(frames))]_vars

\* A RETURN ended an invocation that was itself started inside an
\* invocation; the caller is at the saved return address.
C30_Witness_NestedReturn ==
    /\ last.op = "return"
    /\ last.kind \in {"call", "construct"}
    /\ Len(frames) >= 2
    /\ pc = last.ret
    /\ ~atEnd

(***************************************************************************)
(* Claims about the scope and history stacks, get_member, bp and lp.       *)
(***************************************************************************)
\* C31: the bottom of the scope stack is the global record in every
\* reachable state; and when a RETURN ends an invocation started by `call'
\* or `construct', at any depth, the scope stack and the history stack are
\* again what they were before that call or construct.
C31_ScopeAndHistoryBalanced ==
    /\ [](scope # <<>> /\ scope[1] = GlobalRec)
    /\ [][(Executes("return") /\ Last(frames).kind \in {"call", "construct"})
             => /\ scope' = Last(frames).scope
                /\ history' = Last(frames).history]_vars

\* F, called from inside F at depth 3, has returned to the invocation of F
\* that called it: two records on the scope stack, two history frames.
C31_Witness_RecursiveReturn ==
    /\ last.op = "return"
    /\ last.kind \in {"call", "construct"}
    /\ Len(frames) = 2
    /\ Last(frames).callee = last.callee
    /\ Len(scope) = 2
    /\ Len(history) = 2

\* C32: every get_member that completes leaves the stack one value shorter
\* than it found it (two values popped, one pushed), whatever the parent and
\* the key, an Arguments parent with an integer key outside the window
\* stack[bp..lp] included.
C32_GetMemberNetEffect ==
    [][Executes("get_member") => Len(stack') = Len(stack) - 1]_vars

\* C33: the base pointer and the local pointer are 0 in every reachable
\* state, and so are the two pointers saved in every history frame: no
\* call, construct or return_, however nested, writes or restores another
\* value.
C33_PointersStayZero ==
    /\ bp = 0
    /\ lp = 0
    /\ \A i \in 1 .. Len(history) : history[i][1] = 0 /\ history[i][2] = 0

\* A construct inside a call has returned: the machine is back in the
\* called function, whose history frame is still on the stack.
C33_Witness_ConstructReturnedInsideCall ==
    /\ last.op = "return"
    /\ last.kind = "construct"
    /\ Len(frames) = 2
    /\ Last(frames).kind = "call"
    /\ Len(history) = 2
    /\ Last(history)[3] > 0
    /\ bp = 0
    /\ lp = 0

(***************************************************************************)
(* Claims about the analyzer's stacks.                                     *)
(***************************************************************************)
\* The mangling-map stack is one shorter than the name-set stack.
StacksBalanced ==
    Len(fv_finder.mangled_function_name) = Len(fv_finder.varmap) - 1

\* C34: the stack of mangling maps is one shorter than the stack of name
\* sets whenever the analyzer is between two nodes, in particular before and
\* after the entry to and the exit from every function node; when
\* run_toplevel has returned the name-set stack holds one set, the global
\* one, and the mangling-map stack is empty; and during an analysis no step
\* takes a name out of the global set.
C34_AnalyzerStacksBalanced ==
    /\ [](fv_finder.run >= 1 => StacksBalanced)
    /\ [][(EnterFunction \/ ExitFunction)
             => StacksBalanced /\ StacksBalanced']_vars
    /\ [](Analyzed => /\ Len(fv_finder.varmap) = 1
                      /\ "console" \in fv_finder.varmap[1]
                      /\ fv_finder.mangled_function_name = <<>>)
    /\ [][(fv_finder.run >= 1 /\ fv_finder.run' = fv_finder.run)
             => fv_finder.varmap[1] \subseteq fv_finder.varmap'[1]]_vars

\* An analysis of a program with a function nested in a function is over:
\* both stacks went two deep and came back, and the global set has grown by
\* more than the name of the outer function.
C34_Witness_NestedFunctionsAnalyzed ==
    /\ Analyzed
    /\ \E p \in FunctionPaths : Owner(p) # <<>>
    /\ Len(fv_finder.varmap) = 1
    /\ fv_finder.mangled_function_name = <<>>
    /\ Cardinality(fv_finder.varmap[1]) >= 3

(***************************************************************************)
(* Function.prototype.call (builtins/function.rs).  In this file a         *)
(* Function value is box (id, iseq, obj, callobj) and a BuiltinFunction    *)
(* value is box (info, obj, callobj); CallObject.this is a Box<Value>, so  *)
(* a clone of a record owns its own `this'.  The activation of the host    *)
(* function is a frame that holds its parameters args and callobj.         *)
(***************************************************************************)
\* call_function(vm, id, iseq, args, callobj): the function body runs with
\* the record callobj and leaves its result on the stack, or fails.
call_function(id, iseq, args, callobj) ==
    {Ok(<<v>>) : v \in {Undefined, callobj.this}} \cup {[t |-> "err"]}

\* pub fn function_prototype_call
function_prototype_call ==
    LET in == Last(frames)
        args == in.args
        callee == in.callobj.this
        arg_this == args[1]
        callobj == [callee.callobj EXCEPT !.this = arg_this]
        rest == Tail(args)
        Returns(result, pushed, invoked) ==
            /\ frames' = Front(frames)
            /\ stack' = stack \o pushed
            /\ steps' = steps + 1
            /\ last' = [op |-> "function_prototype_call", result |-> result,
                        args |-> args, callobj |-> in.callobj,
                        invoked |-> invoked]
            /\ UNCHANGED <<scope, history, pc, bp, lp, heap, recs, arrs,
                           fatal, atEnd, budget, loop_bgn_end, fv_finder>>
        Invoked == <<[callee |-> callee, this |-> callobj.this,
                      args |-> rest]>>
    IN  /\ ~fatal
        /\ frames # <<>>
        /\ in.kind = "function_prototype_call"
        /\ IF args = <<>>
           THEN Die("function_prototype_call")
           ELSE CASE callee.t = "builtin" ->
                       \E out \in {Ok(p) : p \in builtin_functions(callee.info,
                                                                   rest)}
                                      \cup {[t |-> "err"]} :
                           IF out.t = "ok"
                           THEN Returns("Ok", out.x, Invoked)
                           ELSE Returns("Err", <<>>, Invoked)
                  [] callee.t = "func" ->
                       \E out \in call_function(callee.id, callee.iseq, rest,
                                                callobj) :
                           IF out.t = "ok"
                           THEN Returns("Ok", out.x, Invoked)
                           ELSE Die("function_prototype_call")
                  [] OTHER -> Returns("Ok", <<Undefined>>, <<>>)

\* The longest argument vector handed to Function.prototype.call.
MaxCallArgs == 3

NextFunctionCall == function_prototype_call

\* The host function has been entered with some record, whose `this' is any
\* value, with some arguments and on some stack.
InitFunctionCall ==
    /\ \E this \in {[t |-> "func", id |-> 1, iseq |-> 100,
                     callobj |-> [this |-> th]] : th \in {Undefined, Object(1)}}
                   \cup {[t |-> "builtin", info |-> 0,
                          callobj |-> [this |-> Undefined]]}
                   \cup {Undefined, Number(1), Object(1)} :
           \E n \in 0 .. MaxCallArgs :
               \E args \in [1 .. n -> {Undefined, Number(1), Object(2)}] :
                   frames = <<[kind |-> "function_prototype_call",
                               args |-> args, callobj |-> [this |-> this]]>>
    /\ stack \in {<<>>, <<Number(7)>>}
    /\ scope = <<>>
    /\ history = <<>>
    /\ pc = 0
    /\ bp = 0
    /\ lp = 0
    /\ heap = <<>>
    /\ recs = <<>>
    /\ arrs = <<>>
    /\ fatal = FALSE
    /\ atEnd = FALSE
    /\ steps = 0
    /\ budget = 1
    /\ loop_bgn_end = EmptyMap
    /\ last = [op |-> "none"]
    /\ fv_finder = <<>>

SpecFunctionCall == InitFunctionCall /\ [][NextFunctionCall]_vars

\* C35: function_prototype_call, given arguments, invokes the callee held
\* in the record's `this' with `this' set to args[0] and with the arguments
\* args[1..] in their order, and the record it was given (the callee and the
\* `this' stored in it) is afterwards what it was; when the callee is
\* neither a Function nor a BuiltinFunction it pushes exactly one Undefined
\* and returns Ok.
C35_FunctionPrototypeCall ==
    [][Attempts("function_prototype_call") =>
          LET in == Last(frames)
              callee == in.callobj.this
          IN  /\ (in.args # <<>> /\ callee.t \in {"func", "builtin"}) =>
                     \/ last'.op = "panic"
                     \/ /\ last'.invoked = <<[callee |-> callee,
                                              this |-> Head(in.args),
                                              args |-> Tail(in.args)]>>
                        /\ last'.callobj = in.callobj
              /\ callee.t \notin {"func", "builtin"} =>
                     /\ last'.op = "function_prototype_call"
                     /\ last'.result = "Ok"
                     /\ last'.invoked = <<>>
                     /\ stack' = Append(stack, Undefined)]_vars

====
